---- MODULE Spec2Model ----
(***************************************************************************)
(* Model of the SQL-backed stores of split_client_side:                    *)
(*   storage/adapters/sql.py  db_session, DbClient and the record models   *)
(*   storage/sql.py           SqlSplitStorage, SqlSegmentStorage,          *)
(*                            SqlImpressionStorage, SqlEventStorage,       *)
(*                            SqlTelemetryStorage                          *)
(*                                                                         *)
(* Every thread runs one store method at a time.  A store method is a      *)
(* sequence of DbClient primitives; every primitive is wrapped by          *)
(* db_session, which is modelled by DbSessionEnter / DbSessionExit around  *)
(* the primitive's own steps.  th[t].at is the statement of the store      *)
(* method the thread executes next (while inside a primitive: the          *)
(* statement it continues with after the primitive), th[t].ph is the       *)
(* position relative to db_session:                                        *)
(*   "idle"   no store method running (op, arg, ret, out: the last call)   *)
(*   "ready"  in the store method, outside any primitive                   *)
(*   "body"   inside the primitive, session open, nothing done yet         *)
(*   "write"  inside the primitive, rows read, write and commit pending    *)
(*   "incr"   inside increment_or_create, record at hand, increment pending*)
(*   "exit"   primitive finished, the finally block of db_session pending  *)
(*   "failed" _db_session_maker() raised under the lock, unwinding pending *)
(*   "nready", "nbody", "nexit": as "ready", "body", "exit", for a wrapped *)
(*            method called from the body of a wrapped method              *)
(***************************************************************************)
EXTENDS Integers, Sequences, FiniteSets, TLC

\* ---------------------------------------------------------------- bounds
NumThreads == 2
MaxItems == 3
MaxPop == 2
MaxClock == 1
QueueSize == 0
EvtQueueSize == 2
MaxIncs == 3
MaxRaceItems == 1
MaxSegmentRows == 2
MaxKeyRows == 3
MaxMySegmentId == 4
MaxSplitId == 3

Threads == 1..NumThreads

\* LatencyModel has the columns bucket_0 .. bucket_21.
LastBucket == 21
Buckets == 0..LastBucket
\* The bucket arguments of the callers in this model.
BucketInputs == {-1, 0, 1, LastBucket, LastBucket + 1}
NoThread == 0

\* The names the callers use in this model.
CounterNames == {"counter_1", "counter_2"}
LatencyNames == {"latency_1", "latency_2"}
GaugeNames == {"gauge_1", "gauge_2"}
GaugeValues == {1, 2}
SplitNames == {"split_1", "split_2"}
TrafficTypes == {"user", "account"}
ChangeNumbers == {1, 2}
SegmentNames == {"segment_1"}
SegmentKeyNames == {"key_1", "key_2"}
TrafficKeys == {"subject_1", "subject_2"}
MySegmentNames == {"mine_1", "mine_2"}

VARIABLES
    impressions,   \* table split_impressions: set of rows
    impHook,       \* SqlImpressionStorage._table_full_hook
    impPut,        \* history: number of impressions handed to put so far
    impReturned,   \* history: impressions returned by pop_many, in order
    events,        \* table split_events: set of rows
    evtHook,       \* SqlEventStorage._table_full_hook
    evtPut,        \* history: number of events handed to put so far
    evtReturned,   \* history: events returned by pop_many, in order
    counters,      \* table split_counters: set of rows
    gauges,        \* table split_gauges: set of rows
    latencies,     \* table split_latencies: set of rows
    incSince,      \* history: inc_counter calls finished since the last drain, per name
    incOwed,       \* history: per name, increments finished minus values drained
    latSince,      \* history: inc_latency calls since the last drain, per name and bucket
    cleared,       \* history: the stores whose clear() returned with no other call since
    splits,        \* table split_splits: set of rows
    metadata,      \* table split_metadata: set of rows, name is the primary key
    segments,      \* table split_segments: set of rows
    segmentKeys,   \* table split_segment_keys: set of rows
    mySegments,    \* table split_my_segments: set of rows
    splitLock,     \* SqlSplitStorage._lock: the thread holding it, or NoThread
    sessionLock,   \* _db_session_lock: the thread holding it, or NoThread
    session,       \* db.session (thread local): TRUE when the attribute is set
    openSessions,  \* Session objects made by _db_session_maker and not closed
    clock,         \* what datetime.datetime.now() returns next
    th             \* per thread: the running store method and its locals

impV == <<impressions, impHook, impPut, impReturned>>
evtV == <<events, evtHook, evtPut, evtReturned>>
telV == <<counters, gauges, latencies, incSince, incOwed, latSince, cleared>>
cfgV == <<splits, metadata, segments, segmentKeys, mySegments, splitLock>>
sesV == <<sessionLock, session, openSessions>>

vars == <<impV, evtV, telV, cfgV, sesV, clock, th>>

\* ---------------------------------------------------------------- helpers
Min(a, b) == IF a < b THEN a ELSE b

MaxOf(S) == IF S = {} THEN 0 ELSE CHOOSE x \in S : \A y \in S : y <= x

Range(s) == {s[i] : i \in DOMAIN s}

Take(s, n) == SubSeq(s, 1, Min(n, Len(s)))

RECURSIVE SetToSeq(_)
\* for key in keys: the elements of a set, one after the other
SetToSeq(S) ==
    IF S = {} THEN <<>>
    ELSE LET x == CHOOSE y \in S : TRUE IN <<x>> \o SetToSeq(S \ {x})

\* The primary key a new row gets: SQLite's INTEGER PRIMARY KEY is the largest
\* rowid of the table plus one.
NewId(table, i) == MaxOf({r.id : r \in table}) + i

\* The sequences datetime.now can return to n consecutive calls starting at the
\* current clock value: the clock does not run backwards by itself, and two
\* calls may fall into the same tick.
Stamps(n) ==
    {f \in [1..n -> clock..MaxClock] :
        \A i \in 1..n : \A j \in 1..n : i <= j => f[i] <= f[j]}

\* query.order_by(created_at.asc()).all(): every row once, created_at
\* ascending.  Rows with equal created_at come in an order the engine chooses.
OrderedByCreatedAt(table) ==
    {s \in [1..Cardinality(table) -> table] :
        /\ \A i \in DOMAIN s : \A j \in DOMAIN s : i # j => s[i] # s[j]
        /\ \A i \in DOMAIN s : \A j \in DOMAIN s :
              i < j => s[i].created_at <= s[j].created_at}

\* query.all() without order_by: every row once, in an order the engine chooses.
AnyOrder(table) ==
    {s \in [1..Cardinality(table) -> table] :
        \A i \in DOMAIN s : \A j \in DOMAIN s : i # j => s[i] # s[j]}

\* query.filter(model.name == name)
ByName(table, name) == {r \in table : r.name = name}

\* {row.name: row.value for row in rows}: a later row replaces an earlier one
\* of the same name.
RowsAsDict(rows) ==
    [n \in {rows[i].name : i \in DOMAIN rows} |->
        rows[MaxOf({i \in DOMAIN rows : rows[i].name = n})].value]

OneOrNone_First(found) == IF found = {} THEN "None" ELSE "row"

\* Query.one_or_none() on the rows a query selects: None, the row, or
\* MultipleResultsFound raised
OneOrNone(found) ==
    IF found = {} THEN "None"
    ELSE IF Cardinality(found) = 1 THEN "row" ELSE "MultipleResultsFound"

DeleteAll_KeepsRows(table) == table

\* DbClient.delete_all(model) with no filter: what is left of the table
DeleteAll(table) == {}

\* DbClient.pop's query: filter, order_by, limit.
PopQuery(table, limit) == {Take(s, limit) : s \in OrderedByCreatedAt(table)}

Idle == [op |-> "none", at |-> "none", ph |-> "idle", outer |-> FALSE, inner |-> FALSE,
         arg |-> <<>>, rows |-> <<>>, ret |-> "none", out |-> <<>>, fired |-> 0,
         raced |-> FALSE, nested |-> FALSE, loc |-> <<>>]

Call(op, at, arg) == [Idle EXCEPT !.op = op, !.at = at, !.ph = "ready", !.arg = arg]

\* The statements that call a db_session-wrapped DbClient method.
DbCallSites ==
    {"imp_merge", "imp_count", "imp_pop",
     "evt_merge", "evt_count", "evt_sum", "evt_pop",
     "ctr_inc", "ctr_pop", "lat_inc", "lat_pop", "gauge_put", "gauge_pop",
     "imp_clear", "evt_clear", "tel_clear_lat", "tel_clear_ctr", "tel_clear_gauge",
     "hook_pop", "hook_clear",
     "spl_put_get", "spl_put_merge", "spl_rm_get", "spl_rm_delete",
     "spl_setcn", "kill_getcn", "kill_get", "spl_valid_tt", "spl_get", "spl_names", "spl_getcn", "spl_fetch",
     "seg_put_get", "seg_put_merge", "seg_upd_get", "seg_upd_merge",
     "seg_setcn_get", "seg_setcn_merge", "seg_get", "seg_contains", "seg_getcn",
     "myseg_put_delete", "myseg_put_merge", "myseg_get", "myseg_contains", "myseg_clear", "wrapped"}

Init ==
    /\ impressions = {}
    /\ sessionLock = NoThread
    /\ session = [t \in Threads |-> FALSE]
    /\ openSessions = 0
    /\ impHook = "None"
    /\ clock = 0
    /\ th = [t \in Threads |-> Idle]
    /\ impPut = 0
    /\ impReturned = <<>>
    /\ events = {}
    /\ evtHook = "None"
    /\ evtPut = 0
    /\ evtReturned = <<>>
    /\ counters = {}
    /\ gauges = {}
    /\ latencies = {}
    /\ incSince = [n \in CounterNames |-> 0]
    /\ incOwed = [n \in CounterNames |-> 0]
    /\ latSince = [n \in LatencyNames |-> [b \in BucketInputs \cup Buckets |-> 0]]
    /\ cleared = {}
    /\ splits = {}
    /\ metadata = {}
    /\ segments = {}
    /\ segmentKeys = {}
    /\ mySegments = {}
    /\ splitLock = NoThread

\* ------------------------------------------------------------- db_session
SessionLockAvailable_NoLock == TRUE

\* with _db_session_lock: the lock can be taken
SessionLockAvailable == sessionLock = NoThread

HasSession_Never(t) == FALSE

\* hasattr(db, 'session')
HasSession(t) == session[t]

RunsFinally_OnReturnOnly(raised) == ~raised

\* try: return method(...) finally: ...: the finally block runs whether the
\* method returned or raised
RunsFinally(raised) == TRUE

LockAfterWith_StillHeld(t) == t

\* the end of 'with _db_session_lock:', left normally or by an exception
LockAfterWith(t) == NoThread

\* The exceptions a wrapped method or the session maker raises.
Raised(frame) ==
    frame.ret \in {"OperationalError", "SessionMakerError", "MultipleResultsFound",
                   "IntegrityError", "NoResultFound"}

\* db_session_method up to the call of the wrapped method.  The call comes
\* from a store method ("ready") or from the body of a wrapped method
\* ("nready").
DbSessionEnter(t) ==
    /\ th[t].ph \in {"ready", "nready"}
    /\ th[t].at \in DbCallSites
    /\ IF HasSession(t)
       THEN /\ th' = [th EXCEPT ![t] =
                         IF th[t].ph = "ready"
                         THEN [@ EXCEPT !.ph = "body", !.outer = FALSE]
                         ELSE [@ EXCEPT !.ph = "nbody", !.inner = FALSE]]
            /\ UNCHANGED <<sessionLock, session, openSessions>>
       ELSE /\ SessionLockAvailable
            /\ sessionLock' = t
            /\ session' = [session EXCEPT ![t] = TRUE]
            /\ openSessions' = openSessions + 1
            /\ th' = [th EXCEPT ![t] =
                         IF th[t].ph = "ready"
                         THEN [@ EXCEPT !.ph = "body", !.outer = TRUE]
                         ELSE [@ EXCEPT !.ph = "nbody", !.inner = TRUE]]
    /\ UNCHANGED <<impV, evtV, clock, telV, cfgV>>

\* db_session_method after the wrapped method: the finally block and the end
\* of the with statement.  A store method whose last statement was the
\* primitive (at = "end") has returned with it, or has let its exception
\* pass; a wrapped method that made the call continues its body.
DbSessionExit(t) ==
    /\ th[t].ph \in {"exit", "nexit"}
    /\ LET created == IF th[t].ph = "exit" THEN th[t].outer ELSE th[t].inner
       IN IF created
          THEN /\ IF RunsFinally(Raised(th[t]))
                  THEN /\ session' = [session EXCEPT ![t] = FALSE]
                       /\ openSessions' = openSessions - 1
                  ELSE UNCHANGED <<session, openSessions>>
               /\ sessionLock' = LockAfterWith(t)
          ELSE UNCHANGED <<sessionLock, session, openSessions>>
    /\ th' = [th EXCEPT ![t] =
                 IF th[t].ph = "nexit"
                 THEN [@ EXCEPT !.ph = "body", !.inner = FALSE]
                 ELSE [@ EXCEPT !.ph = IF th[t].at = "end" THEN "idle" ELSE "ready",
                                !.outer = FALSE]]
    /\ UNCHANGED <<impV, evtV, clock, telV, cfgV>>

\* db.session = self._db_session_maker() raises: the lock is held, no session
\* was made and the attribute is not set.
DbSessionMakerRaises(t) ==
    /\ th[t].ph = "ready"
    /\ th[t].at \in DbCallSites
    /\ splitLock # t
    /\ ~HasSession(t)
    /\ SessionLockAvailable
    /\ sessionLock' = t
    /\ th' = [th EXCEPT ![t].ph = "failed"]
    /\ UNCHANGED <<session, openSessions, impV, evtV, clock, telV, cfgV>>

\* The exception of the session maker leaves the with statement and
\* db_session_method, and the store method that made the call.
DbSessionUnwind(t) ==
    /\ th[t].ph = "failed"
    /\ sessionLock' = LockAfterWith(t)
    /\ th' = [th EXCEPT ![t].ret = "SessionMakerError", ![t].at = "end",
                        ![t].ph = "idle"]
    /\ UNCHANGED <<session, openSessions, impV, evtV, clock, telV, cfgV>>

\* The wrapped method raises (the engine fails): nothing is committed.  Both
\* failures are followed here for the store methods that hold no writer lock.
DbMethodRaises(t) ==
    /\ th[t].ph \in {"body", "write"}
    /\ splitLock # t
    /\ th' = [th EXCEPT ![t].ret = "OperationalError", ![t].rows = <<>>,
                        ![t].at = "end", ![t].ph = "exit"]
    /\ UNCHANGED <<impV, evtV, sesV, clock, telV, cfgV>>

\* A wrapped method whose body calls a wrapped method of the same client.  No
\* method of DbClient does; db_session_method provides for it.
WrappedCallsWrapped(t) ==
    /\ th[t].ph = "idle"
    /\ th' = [th EXCEPT ![t] = Call("wrapped_calls_wrapped", "wrapped", <<>>)]
    /\ UNCHANGED <<impV, evtV, sesV, clock, telV, cfgV>>

\* the outer method's body reaches its call of the inner wrapped method
WrappedCallsWrapped_call(t) ==
    /\ th[t].at = "wrapped" /\ th[t].ph = "body" /\ th[t].fired = 0
    /\ th' = [th EXCEPT ![t].ph = "nready"]
    /\ UNCHANGED <<impV, evtV, sesV, clock, telV, cfgV>>

\* the inner method runs a query on db.session and returns
WrappedCallsWrapped_inner(t) ==
    /\ th[t].at = "wrapped" /\ th[t].ph = "nbody"
    /\ th' = [th EXCEPT ![t].ph = "nexit", ![t].fired = 1]
    /\ UNCHANGED <<impV, evtV, sesV, clock, telV, cfgV>>

\* the outer method returns after the inner call
WrappedCallsWrapped_return(t) ==
    /\ th[t].at = "wrapped" /\ th[t].ph = "body" /\ th[t].fired = 1
    /\ th' = [th EXCEPT ![t].ret = "None", ![t].at = "end", ![t].ph = "exit"]
    /\ UNCHANGED <<impV, evtV, sesV, clock, telV, cfgV>>

\* ------------------------------------------------------ the wall clock
\* datetime.datetime.now is the local wall clock: it advances, and it is set
\* back by a daylight-saving change or a clock adjustment.
ClockAdjust ==
    /\ \E c \in 0..MaxClock : c # clock /\ clock' = c
    /\ UNCHANGED <<impV, evtV, sesV, th, telV, cfgV>>

\* --------------------------------------------------- SqlImpressionStorage
HookValues == {"None", "not_callable", "hook1", "hook2"}

Callable_NotNone(h) == h # "None"

\* callable(hook)
Callable(h) == h \in {"hook1", "hook2"}

AfterHook_Caught(raised) == "True"

\* self._table_full_hook(); return True: what put ends with when the hook
\* returned, and when it raised
AfterHook(raised) == IF raised THEN "HookError" ELSE "True"

ImpSetTableFullHook(t) ==
    /\ th[t].ph = "idle"
    /\ \E h \in HookValues :
          /\ impHook' = IF Callable(h) THEN h ELSE impHook
          /\ th' = [th EXCEPT ![t] = [Idle EXCEPT !.op = "imp_set_hook", !.arg = <<h>>]]
    /\ cleared' = cleared \ {"impressions"}
    /\ UNCHANGED <<impressions, impPut, impReturned, evtV, sesV, clock, counters, gauges, latencies, incSince, incOwed, latSince, cfgV>>

\* put(impressions): the caller hands over n new impressions.  Impressions are
\* numbered in the order they are handed over.
ImpPut(t) ==
    /\ th[t].ph = "idle"
    /\ \E n \in 0..(MaxItems - impPut) :
          /\ th' = [th EXCEPT ![t] =
                       Call("imp_put", "imp_merge", [i \in 1..n |-> impPut + i])]
          /\ impPut' = impPut + n
    /\ cleared' = cleared \ {"impressions"}
    /\ UNCHANGED <<impressions, impHook, impReturned, evtV, sesV, clock, counters, gauges, latencies, incSince, incOwed, latSince, cfgV>>

\* merge_and_commit(*[ImpressionModel(json_data=...)]): one INSERT per record,
\* in list order, each with created_at = datetime.now().
ImpPut_merge(t) ==
    /\ th[t].at = "imp_merge" /\ th[t].ph = "body"
    /\ LET items == th[t].arg
           n == Len(items)
       IN \E f \in Stamps(n) :
             /\ impressions' = impressions \cup
                   {[id |-> NewId(impressions, i), created_at |-> f[i],
                     json_data |-> items[i]] : i \in 1..n}
             /\ clock' = IF n = 0 THEN clock ELSE f[n]
    /\ th' = [th EXCEPT ![t].at = "imp_count", ![t].ph = "exit"]
    /\ UNCHANGED <<impHook, impPut, impReturned, evtV, sesV, telV, cfgV>>

ImpOverflow_AtCapacity(count) == count >= QueueSize

ImpOverflow(count) == count > QueueSize

ImpPut_count_HookInside(t) ==
    /\ th[t].at = "imp_count" /\ th[t].ph = "body"
    /\ th' = [th EXCEPT
                 ![t].at = IF ImpOverflow(Cardinality(impressions)) THEN "imp_hook" ELSE "end",
                 ![t].ret = IF ImpOverflow(Cardinality(impressions)) THEN "none" ELSE "True",
                 ![t].ph = IF ImpOverflow(Cardinality(impressions)) THEN "ready" ELSE "exit"]
    /\ UNCHANGED <<impV, evtV, sesV, clock, telV, cfgV>>

ImpPut_count_Crossing(t) ==
    /\ th[t].at = "imp_count" /\ th[t].ph = "body"
    /\ LET crossed == /\ Cardinality(impressions) > QueueSize
                      /\ Cardinality(impressions) - Len(th[t].arg) <= QueueSize
       IN th' = [th EXCEPT
                    ![t].at = IF crossed THEN "imp_hook" ELSE "end",
                    ![t].ret = IF crossed THEN "none" ELSE "True",
                    ![t].ph = "exit"]
    /\ UNCHANGED <<impV, evtV, sesV, clock, telV, cfgV>>

\* get_count(ImpressionModel) > self._queue_size
ImpPut_count(t) ==
    /\ th[t].at = "imp_count" /\ th[t].ph = "body"
    /\ th' = [th EXCEPT
                 ![t].at = IF ImpOverflow(Cardinality(impressions)) THEN "imp_hook" ELSE "end",
                 ![t].ret = IF ImpOverflow(Cardinality(impressions)) THEN "none" ELSE "True",
                 ![t].ph = "exit"]
    /\ UNCHANGED <<impV, evtV, sesV, clock, telV, cfgV>>

\* self._table_full_hook(); return True.  Calling None raises TypeError.
ImpPut_hook(t) ==
    /\ th[t].at = "imp_hook" /\ th[t].ph = "ready"
    /\ th' = [th EXCEPT
                 ![t].at = "end", ![t].ph = "idle",
                 ![t].fired = IF Callable(impHook) THEN th[t].fired + 1 ELSE th[t].fired,
                 ![t].out = IF Callable(impHook) THEN <<impHook, "returned">> ELSE <<>>,
                 ![t].ret = IF Callable(impHook) THEN AfterHook(FALSE) ELSE "TypeError"]
    /\ UNCHANGED <<impV, evtV, sesV, clock, telV, cfgV>>

\* self._table_full_hook() raises: put does not catch it.
ImpPut_hookRaises(t) ==
    /\ th[t].at = "imp_hook" /\ th[t].ph = "ready"
    /\ Callable(impHook)
    /\ th' = [th EXCEPT
                 ![t].at = "end", ![t].ph = "idle",
                 ![t].fired = th[t].fired + 1,
                 ![t].out = <<impHook, "raised">>,
                 ![t].ret = AfterHook(TRUE)]
    /\ UNCHANGED <<impV, evtV, sesV, clock, telV, cfgV>>

ImpPopMany(t) ==
    /\ th[t].ph = "idle"
    /\ \E k \in 0..MaxPop :
          th' = [th EXCEPT ![t] = Call("imp_pop_many", "imp_pop", <<k>>)]
    /\ UNCHANGED <<impV, evtV, sesV, clock, telV, cfgV>>

\* DbClient.pop: rows = query.all()
ImpPop_read(t) ==
    /\ th[t].at = "imp_pop" /\ th[t].ph = "body"
    /\ \E rows \in PopQuery(impressions, th[t].arg[1]) :
          th' = [th EXCEPT ![t].rows = rows, ![t].ph = "write"]
    /\ UNCHANGED <<impV, evtV, sesV, clock, telV, cfgV>>

\* DbClient.pop: delete every row read, commit, return the rows; pop_many
\* returns their payloads.
ImpPop_delete(t) ==
    /\ th[t].at = "imp_pop" /\ th[t].ph = "write"
    /\ LET payloads == [i \in DOMAIN th[t].rows |-> th[t].rows[i].json_data]
       IN /\ impressions' = impressions \ Range(th[t].rows)
          /\ impReturned' = impReturned \o payloads
          /\ th' = [th EXCEPT ![t].out = payloads, ![t].rows = <<>>,
                              ![t].ret = "rows", ![t].at = "end", ![t].ph = "exit"]
    /\ cleared' = cleared \ {"impressions"}
    /\ UNCHANGED <<impHook, impPut, evtV, sesV, clock, counters, gauges, latencies, incSince, incOwed, latSince, cfgV>>

\* self._table_full_hook() where the hook calls pop_many(k) of the same
\* storage in the calling thread, as the flush of the impressions task does.
ImpPut_hookPops(t) ==
    /\ th[t].at = "imp_hook" /\ th[t].ph = "ready"
    /\ Callable(impHook)
    /\ \E k \in 1..MaxPop :
          th' = [th EXCEPT ![t].at = "hook_pop", ![t].loc = <<k>>,
                           ![t].fired = th[t].fired + 1]
    /\ UNCHANGED <<impV, evtV, sesV, clock, telV, cfgV>>

\* the hook's pop_many: DbClient.pop, rows = query.all()
ImpHookPop_read(t) ==
    /\ th[t].at = "hook_pop" /\ th[t].ph = "body"
    /\ \E rows \in PopQuery(impressions, th[t].loc[1]) :
          th' = [th EXCEPT ![t].rows = rows, ![t].ph = "write"]
    /\ UNCHANGED <<impV, evtV, sesV, clock, telV, cfgV>>

\* the hook's pop_many: DbClient.pop deletes the rows read and commits
ImpHookPop_delete(t) ==
    /\ th[t].at = "hook_pop" /\ th[t].ph = "write"
    /\ LET payloads == [i \in DOMAIN th[t].rows |-> th[t].rows[i].json_data]
       IN /\ impressions' = impressions \ Range(th[t].rows)
          /\ impReturned' = impReturned \o payloads
          /\ th' = [th EXCEPT ![t].out = payloads, ![t].rows = <<>>,
                              ![t].at = "hook_ret", ![t].ph = "exit"]
    /\ UNCHANGED <<impHook, impPut, evtV, sesV, clock, telV, cfgV>>

\* self._table_full_hook() where the hook calls clear() of the same storage
ImpPut_hookClears(t) ==
    /\ th[t].at = "imp_hook" /\ th[t].ph = "ready"
    /\ Callable(impHook)
    /\ th' = [th EXCEPT ![t].at = "hook_clear", ![t].fired = th[t].fired + 1]
    /\ UNCHANGED <<impV, evtV, sesV, clock, telV, cfgV>>

\* the hook's clear: delete_all(ImpressionModel)
ImpHookClear_delete(t) ==
    /\ th[t].at = "hook_clear" /\ th[t].ph = "body"
    /\ impressions' = DeleteAll(impressions)
    /\ th' = [th EXCEPT ![t].at = "hook_ret", ![t].ph = "exit"]
    /\ UNCHANGED <<impHook, impPut, impReturned, evtV, sesV, clock, telV, cfgV>>

\* the hook returns; put: return True
ImpPut_hookReturns(t) ==
    /\ th[t].at = "hook_ret" /\ th[t].ph = "ready"
    /\ th' = [th EXCEPT ![t].ret = AfterHook(FALSE), ![t].at = "end", ![t].ph = "idle"]
    /\ UNCHANGED <<impV, evtV, sesV, clock, telV, cfgV>>

\* clear()
ImpClear(t) ==
    /\ th[t].ph = "idle"
    /\ th' = [th EXCEPT ![t] = Call("imp_clear", "imp_clear", <<>>)]
    /\ cleared' = cleared \ {"impressions"}
    /\ UNCHANGED <<impV, evtV, sesV, clock, counters, gauges, latencies, incSince, incOwed, latSince, cfgV>>

\* delete_all(ImpressionModel): query.delete(); commit
ImpClear_delete(t) ==
    /\ th[t].at = "imp_clear" /\ th[t].ph = "body"
    /\ impressions' = DeleteAll(impressions)
    /\ cleared' = cleared \cup {"impressions"}
    /\ th' = [th EXCEPT ![t].ret = "None", ![t].at = "end", ![t].ph = "exit"]
    /\ UNCHANGED <<impHook, impPut, impReturned, evtV, sesV, clock, counters, gauges, latencies, incSince, incOwed, latSince, cfgV>>

ImpressionStep(t) ==
    \/ ImpSetTableFullHook(t)
    \/ ImpPut(t)
    \/ ImpPut_merge(t)
    \/ ImpPut_count(t)
    \/ ImpPut_hook(t)
    \/ ImpPopMany(t)
    \/ ImpPop_read(t)
    \/ ImpPop_delete(t)

\* -------------------------------------------------------- SqlEventStorage
MAX_SIZE_BYTES == 5 * 1024 * 1024

\* The sizes an EventWrapper carries in this model: one byte, and one byte less
\* than the ceiling.
EventSizes == {1, MAX_SIZE_BYTES - 1}

RECURSIVE SumSizes(_)
\* sum(event.size for event in get_all(EventModel))
SumSizes(rows) ==
    IF rows = {} THEN 0
    ELSE LET r == CHOOSE x \in rows : TRUE IN r.size + SumSizes(rows \ {r})

EvtSetTableFullHook(t) ==
    /\ th[t].ph = "idle"
    /\ \E h \in HookValues :
          /\ evtHook' = IF Callable(h) THEN h ELSE evtHook
          /\ th' = [th EXCEPT ![t] = [Idle EXCEPT !.op = "evt_set_hook", !.arg = <<h>>]]
    /\ cleared' = cleared \ {"events"}
    /\ UNCHANGED <<events, evtPut, evtReturned, impV, sesV, clock, counters, gauges, latencies, incSince, incOwed, latSince, cfgV>>

\* put(events): the caller hands over n new events, each with its size.
EvtPut(t) ==
    /\ th[t].ph = "idle"
    /\ \E n \in 0..(MaxItems - evtPut) : \E sz \in [1..n -> EventSizes] :
          /\ th' = [th EXCEPT ![t] =
                       Call("evt_put", "evt_merge",
                            [i \in 1..n |-> [event |-> evtPut + i, size |-> sz[i]]])]
          /\ evtPut' = evtPut + n
    /\ cleared' = cleared \ {"events"}
    /\ UNCHANGED <<events, evtHook, evtReturned, impV, sesV, clock, counters, gauges, latencies, incSince, incOwed, latSince, cfgV>>

\* merge_and_commit(*[EventModel(json_data=..., size=event.size)])
EvtPut_merge(t) ==
    /\ th[t].at = "evt_merge" /\ th[t].ph = "body"
    /\ LET items == th[t].arg
           n == Len(items)
       IN \E f \in Stamps(n) :
             /\ events' = events \cup
                   {[id |-> NewId(events, i), created_at |-> f[i],
                     json_data |-> items[i].event, size |-> items[i].size] : i \in 1..n}
             /\ clock' = IF n = 0 THEN clock ELSE f[n]
    /\ th' = [th EXCEPT ![t].at = "evt_count", ![t].ph = "exit"]
    /\ UNCHANGED <<evtHook, evtPut, evtReturned, impV, sesV, telV, cfgV>>

EvtCountOverflow(count) == count > EvtQueueSize

EvtSizeOverflow_Strict(total) == total > MAX_SIZE_BYTES

EvtSizeOverflow(total) == total >= MAX_SIZE_BYTES

\* get_count(EventModel) > self._queue_size; when it is, `or` does not evaluate
\* its second operand.
EvtPut_count(t) ==
    /\ th[t].at = "evt_count" /\ th[t].ph = "body"
    /\ th' = [th EXCEPT
                 ![t].at = IF EvtCountOverflow(Cardinality(events))
                           THEN "evt_hook" ELSE "evt_sum",
                 ![t].ph = "exit"]
    /\ UNCHANGED <<impV, evtV, sesV, clock, telV, cfgV>>

\* sum(event.size for event in get_all(EventModel)) >= self.MAX_SIZE_BYTES
EvtPut_sum(t) ==
    /\ th[t].at = "evt_sum" /\ th[t].ph = "body"
    /\ th' = [th EXCEPT
                 ![t].at = IF EvtSizeOverflow(SumSizes(events)) THEN "evt_hook" ELSE "end",
                 ![t].ret = IF EvtSizeOverflow(SumSizes(events)) THEN "none" ELSE "True",
                 ![t].ph = "exit"]
    /\ UNCHANGED <<impV, evtV, sesV, clock, telV, cfgV>>

\* self._table_full_hook(); return True.  Calling None raises TypeError.
EvtPut_hook(t) ==
    /\ th[t].at = "evt_hook" /\ th[t].ph = "ready"
    /\ th' = [th EXCEPT
                 ![t].at = "end", ![t].ph = "idle",
                 ![t].fired = IF Callable(evtHook) THEN th[t].fired + 1 ELSE th[t].fired,
                 ![t].out = IF Callable(evtHook) THEN <<evtHook, "returned">> ELSE <<>>,
                 ![t].ret = IF Callable(evtHook) THEN AfterHook(FALSE) ELSE "TypeError"]
    /\ UNCHANGED <<impV, evtV, sesV, clock, telV, cfgV>>

\* self._table_full_hook() raises: put does not catch it.
EvtPut_hookRaises(t) ==
    /\ th[t].at = "evt_hook" /\ th[t].ph = "ready"
    /\ Callable(evtHook)
    /\ th' = [th EXCEPT
                 ![t].at = "end", ![t].ph = "idle",
                 ![t].fired = th[t].fired + 1,
                 ![t].out = <<evtHook, "raised">>,
                 ![t].ret = AfterHook(TRUE)]
    /\ UNCHANGED <<impV, evtV, sesV, clock, telV, cfgV>>

EvtPopMany(t) ==
    /\ th[t].ph = "idle"
    /\ \E k \in 0..MaxPop :
          th' = [th EXCEPT ![t] = Call("evt_pop_many", "evt_pop", <<k>>)]
    /\ UNCHANGED <<impV, evtV, sesV, clock, telV, cfgV>>

\* DbClient.pop: rows = query.all()
EvtPop_read(t) ==
    /\ th[t].at = "evt_pop" /\ th[t].ph = "body"
    /\ \E rows \in PopQuery(events, th[t].arg[1]) :
          th' = [th EXCEPT ![t].rows = rows, ![t].ph = "write"]
    /\ UNCHANGED <<impV, evtV, sesV, clock, telV, cfgV>>

\* DbClient.pop: delete every row read, commit, return the rows.
EvtPop_delete(t) ==
    /\ th[t].at = "evt_pop" /\ th[t].ph = "write"
    /\ LET payloads == [i \in DOMAIN th[t].rows |-> th[t].rows[i].json_data]
       IN /\ events' = events \ Range(th[t].rows)
          /\ evtReturned' = evtReturned \o payloads
          /\ th' = [th EXCEPT ![t].out = payloads, ![t].rows = <<>>,
                              ![t].ret = "rows", ![t].at = "end", ![t].ph = "exit"]
    /\ cleared' = cleared \ {"events"}
    /\ UNCHANGED <<evtHook, evtPut, impV, sesV, clock, counters, gauges, latencies, incSince, incOwed, latSince, cfgV>>

\* clear()
EvtClear(t) ==
    /\ th[t].ph = "idle"
    /\ th' = [th EXCEPT ![t] = Call("evt_clear", "evt_clear", <<>>)]
    /\ cleared' = cleared \ {"events"}
    /\ UNCHANGED <<impV, evtV, sesV, clock, counters, gauges, latencies, incSince, incOwed, latSince, cfgV>>

\* delete_all(EventModel): query.delete(); commit
EvtClear_delete(t) ==
    /\ th[t].at = "evt_clear" /\ th[t].ph = "body"
    /\ events' = DeleteAll(events)
    /\ cleared' = cleared \cup {"events"}
    /\ th' = [th EXCEPT ![t].ret = "None", ![t].at = "end", ![t].ph = "exit"]
    /\ UNCHANGED <<evtHook, evtPut, evtReturned, impV, sesV, clock, counters, gauges, latencies, incSince, incOwed, latSince, cfgV>>

EventStep(t) ==
    \/ EvtSetTableFullHook(t)
    \/ EvtPut(t)
    \/ EvtPut_merge(t)
    \/ EvtPut_count(t)
    \/ EvtPut_sum(t)
    \/ EvtPut_hook(t)
    \/ EvtPopMany(t)
    \/ EvtPop_read(t)
    \/ EvtPop_delete(t)

\* ---------------------------------------------------- SqlTelemetryStorage
RECURSIVE SumOver(_, _)
SumOver(f, S) ==
    IF S = {} THEN 0
    ELSE LET x == CHOOSE y \in S : TRUE IN f[x] + SumOver(f, S \ {x})

RECURSIVE SumValues(_)
\* the values of a set of counter rows, added up
SumValues(rows) ==
    IF rows = {} THEN 0
    ELSE LET r == CHOOSE x \in rows : TRUE IN r.value + SumValues(rows \ {r})

\* what a returned {name: value} mapping holds for a name
Drained(dict, n) == IF n \in DOMAIN dict THEN dict[n] ELSE 0

\* inc_counter(name)
IncCounter(t) ==
    /\ th[t].ph = "idle"
    /\ SumOver(incSince, CounterNames) < MaxIncs
    /\ \E n \in CounterNames :
          /\ th' = [th EXCEPT ![t] =
                [Call("inc_counter", "ctr_inc", <<n>>) EXCEPT
                    !.raced = /\ ByName(counters, n) = {}
                              /\ \E u \in Threads \ {t} :
                                    /\ th[u].op = "inc_counter"
                                    /\ th[u].ph # "idle"
                                    /\ th[u].arg = <<n>>]]
          /\ incSince' = [incSince EXCEPT ![n] = @ + 1]
    /\ cleared' = cleared \ {"telemetry"}
    /\ UNCHANGED <<counters, gauges, latencies, incOwed, latSince, impV, evtV, cfgV, sesV, clock>>

\* increment_or_create: record = query.filter(*filters).one_or_none()
IncCounter_read(t) ==
    /\ th[t].at = "ctr_inc" /\ th[t].ph = "body"
    /\ LET found == ByName(counters, th[t].arg[1])
       IN th' = [th EXCEPT ![t] =
              IF Cardinality(found) > 1
              THEN [@ EXCEPT !.ret = "MultipleResultsFound", !.at = "end", !.ph = "exit"]
              ELSE IF found = {}
              THEN [@ EXCEPT !.rows = <<>>, !.ph = "write"]
              ELSE [@ EXCEPT !.rows = <<CHOOSE r \in found : TRUE>>, !.ph = "incr"]]
    /\ UNCHANGED <<impV, evtV, telV, cfgV, sesV, clock>>

\* increment_or_create: record = model(**create_kwargs); add; commit.  The
\* column default makes the value 0.
IncCounter_create(t) ==
    /\ th[t].at = "ctr_inc" /\ th[t].ph = "write"
    /\ LET new == [id |-> NewId(counters, 1), name |-> th[t].arg[1], value |-> 0]
       IN /\ counters' = counters \cup {new}
          /\ th' = [th EXCEPT ![t].rows = <<new>>, ![t].ph = "incr"]
    /\ UNCHANGED <<gauges, latencies, incSince, incOwed, latSince, cleared, impV, evtV, cfgV, sesV, clock>>

\* increment_or_create: db.session.add(record); db.session.commit() raises, the
\* transaction is rolled back, and the handler of 'except Exception' runs
\* record = query.filter(*filters).one(), which raises NoResultFound for no row
\* and MultipleResultsFound for several.
IncCounter_createFails(t) ==
    /\ th[t].at = "ctr_inc" /\ th[t].ph = "write"
    /\ LET found == ByName(counters, th[t].arg[1])
       IN th' = [th EXCEPT ![t] =
              IF Cardinality(found) = 1
              THEN [@ EXCEPT !.rows = <<CHOOSE r \in found : TRUE>>, !.ph = "incr",
                             !.loc = <<"caught">>]
              ELSE [@ EXCEPT !.ret = IF found = {} THEN "NoResultFound"
                                     ELSE "MultipleResultsFound",
                             !.loc = <<"caught">>, !.at = "end", !.ph = "exit"]]
    /\ UNCHANGED <<impV, evtV, telV, cfgV, sesV, clock>>

IncrementedValue_Reset(v) == 1

\* column + 1, evaluated by the engine in the UPDATE
IncrementedValue(v) == v + 1

\* increment_or_create: setattr(record, column.name, column + 1); commit:
\* UPDATE ... SET value = value + 1 WHERE id = record.id
IncCounter_incr(t) ==
    /\ th[t].at = "ctr_inc" /\ th[t].ph = "incr"
    /\ counters' = {IF r.id = th[t].rows[1].id
                    THEN [r EXCEPT !.value = IncrementedValue(r.value)] ELSE r :
                    r \in counters}
    /\ incOwed' = [incOwed EXCEPT ![th[t].arg[1]] = @ + 1]
    /\ th' = [th EXCEPT ![t].ret = "None", ![t].at = "end", ![t].ph = "exit"]
    /\ UNCHANGED <<gauges, latencies, incSince, latSince, cleared, impV, evtV, cfgV, sesV, clock>>

\* pop_counters()
PopCounters(t) ==
    /\ th[t].ph = "idle"
    /\ th' = [th EXCEPT ![t] = Call("pop_counters", "ctr_pop", <<>>)]
    /\ UNCHANGED <<impV, evtV, telV, cfgV, sesV, clock>>

\* DbClient.pop(CounterModel): rows = query.all()
PopCounters_read(t) ==
    /\ th[t].at = "ctr_pop" /\ th[t].ph = "body"
    /\ \E rows \in AnyOrder(counters) :
          th' = [th EXCEPT ![t].rows = rows, ![t].ph = "write"]
    /\ UNCHANGED <<impV, evtV, telV, cfgV, sesV, clock>>

\* DbClient.pop: delete every row read, commit; pop_counters builds the dict.
PopCounters_delete(t) ==
    /\ th[t].at = "ctr_pop" /\ th[t].ph = "write"
    /\ counters' = counters \ Range(th[t].rows)
    /\ incSince' = [n \in CounterNames |-> 0]
    /\ incOwed' = [n \in CounterNames |->
                      incOwed[n] - Drained(RowsAsDict(th[t].rows), n)]
    /\ th' = [th EXCEPT ![t].out = RowsAsDict(th[t].rows), ![t].ret = "dict",
                        ![t].at = "end", ![t].ph = "exit"]
    /\ UNCHANGED <<gauges, latencies, latSince, cleared, impV, evtV, cfgV, sesV, clock>>

ValidBucket_ExcludesZero(bucket) == 0 < bucket /\ bucket <= LastBucket

\* if 0 <= bucket <= 21
ValidBucket(bucket) == 0 <= bucket /\ bucket <= LastBucket

RECURSIVE SumBuckets(_, _)
SumBuckets(f, S) ==
    IF S = {} THEN 0
    ELSE LET x == CHOOSE y \in S : TRUE IN f[x] + SumBuckets(f, S \ {x})

\* inc_latency(name, bucket): nothing happens for a bucket out of range
IncLatency(t) ==
    /\ th[t].ph = "idle"
    /\ \E n \in LatencyNames : \E b \in BucketInputs :
          /\ SumOver([m \in LatencyNames |->
                         SumBuckets(latSince[m], IF b \in Buckets THEN Buckets
                                                 ELSE BucketInputs \ Buckets)],
                     LatencyNames) < MaxIncs
          /\ th' = [th EXCEPT ![t] =
                       IF ValidBucket(b)
                       THEN Call("inc_latency", "lat_inc", <<n, b>>)
                       ELSE [Idle EXCEPT !.op = "inc_latency", !.arg = <<n, b>>,
                                         !.at = "end", !.ret = "None"]]
          /\ latSince' = [latSince EXCEPT ![n][b] = @ + 1]
    /\ cleared' = cleared \ {"telemetry"}
    /\ UNCHANGED <<counters, gauges, latencies, incSince, incOwed, impV, evtV, cfgV,
                   sesV, clock>>

\* increment_or_create: record = query.filter(*filters).one_or_none()
IncLatency_read(t) ==
    /\ th[t].at = "lat_inc" /\ th[t].ph = "body"
    /\ LET found == ByName(latencies, th[t].arg[1])
       IN th' = [th EXCEPT ![t] =
              IF Cardinality(found) > 1
              THEN [@ EXCEPT !.ret = "MultipleResultsFound", !.at = "end", !.ph = "exit"]
              ELSE IF found = {}
              THEN [@ EXCEPT !.rows = <<>>, !.ph = "write"]
              ELSE [@ EXCEPT !.rows = <<CHOOSE r \in found : TRUE>>, !.ph = "incr"]]
    /\ UNCHANGED <<impV, evtV, telV, cfgV, sesV, clock>>

\* increment_or_create: record = LatencyModel(name=name); add; commit.  The
\* column defaults make every bucket 0.
IncLatency_create(t) ==
    /\ th[t].at = "lat_inc" /\ th[t].ph = "write"
    /\ LET new == [id |-> NewId(latencies, 1), name |-> th[t].arg[1],
                   buckets |-> [b \in Buckets |-> 0]]
       IN /\ latencies' = latencies \cup {new}
          /\ th' = [th EXCEPT ![t].rows = <<new>>, ![t].ph = "incr"]
    /\ UNCHANGED <<counters, gauges, incSince, incOwed, latSince, cleared, impV, evtV, cfgV,
                   sesV, clock>>

\* increment_or_create: setattr(record, 'bucket_<b>', column + 1); commit
IncLatency_incr(t) ==
    /\ th[t].at = "lat_inc" /\ th[t].ph = "incr"
    /\ latencies' = {IF r.id = th[t].rows[1].id
                     THEN [r EXCEPT !.buckets[th[t].arg[2]] = IncrementedValue(@)]
                     ELSE r : r \in latencies}
    /\ th' = [th EXCEPT ![t].ret = "None", ![t].at = "end", ![t].ph = "exit"]
    /\ UNCHANGED <<counters, gauges, incSince, incOwed, latSince, cleared, impV, evtV, cfgV,
                   sesV, clock>>

\* pop_latencies()
PopLatencies(t) ==
    /\ th[t].ph = "idle"
    /\ th' = [th EXCEPT ![t] = Call("pop_latencies", "lat_pop", <<>>)]
    /\ UNCHANGED <<impV, evtV, telV, cfgV, sesV, clock>>

\* DbClient.pop(LatencyModel): rows = query.all()
PopLatencies_read(t) ==
    /\ th[t].at = "lat_pop" /\ th[t].ph = "body"
    /\ \E rows \in AnyOrder(latencies) :
          th' = [th EXCEPT ![t].rows = rows, ![t].ph = "write"]
    /\ UNCHANGED <<impV, evtV, telV, cfgV, sesV, clock>>

\* {latency.name: latency.buckets for latency in rows}: a later row of the
\* same name replaces an earlier one
RowsAsBuckets(rows) ==
    [n \in {rows[i].name : i \in DOMAIN rows} |->
        rows[CHOOSE i \in DOMAIN rows :
                /\ rows[i].name = n
                /\ \A j \in DOMAIN rows : rows[j].name = n => j <= i].buckets]

\* DbClient.pop: delete every row read, commit; pop_latencies builds the dict.
PopLatencies_delete(t) ==
    /\ th[t].at = "lat_pop" /\ th[t].ph = "write"
    /\ latencies' = latencies \ Range(th[t].rows)
    /\ latSince' = [n \in LatencyNames |-> [b \in BucketInputs \cup Buckets |-> 0]]
    /\ th' = [th EXCEPT ![t].out = RowsAsBuckets(th[t].rows), ![t].ret = "dict",
                        ![t].at = "end", ![t].ph = "exit"]
    /\ UNCHANGED <<counters, gauges, incSince, incOwed, cleared, impV, evtV, cfgV, sesV, clock>>

\* put_gauge(name, value)
PutGauge(t) ==
    /\ th[t].ph = "idle"
    /\ \E n \in GaugeNames : \E v \in GaugeValues :
          th' = [th EXCEPT ![t] = Call("put_gauge", "gauge_put", <<n, v>>)]
    /\ cleared' = cleared \ {"telemetry"}
    /\ UNCHANGED <<counters, gauges, latencies, incSince, incOwed, latSince, impV, evtV, cfgV, sesV, clock>>

\* update_or_insert: existing_record = query.filter_by(name=name).one_or_none()
PutGauge_read(t) ==
    /\ th[t].at = "gauge_put" /\ th[t].ph = "body"
    /\ LET found == ByName(gauges, th[t].arg[1])
       IN th' = [th EXCEPT ![t] =
              IF Cardinality(found) > 1
              THEN [@ EXCEPT !.ret = "MultipleResultsFound", !.at = "end", !.ph = "exit"]
              ELSE [@ EXCEPT !.rows = IF found = {} THEN <<>>
                                      ELSE <<CHOOSE r \in found : TRUE>>,
                             !.ph = "write"]]
    /\ UNCHANGED <<impV, evtV, telV, cfgV, sesV, clock>>

\* update_or_insert: add GaugeModel(name=name, value=value), or set value on
\* the record read; commit
PutGauge_write(t) ==
    /\ th[t].at = "gauge_put" /\ th[t].ph = "write"
    /\ gauges' = IF th[t].rows = <<>>
                 THEN gauges \cup {[id |-> NewId(gauges, 1), name |-> th[t].arg[1],
                                    value |-> th[t].arg[2]]}
                 ELSE {IF r.id = th[t].rows[1].id THEN [r EXCEPT !.value = th[t].arg[2]]
                       ELSE r : r \in gauges}
    /\ th' = [th EXCEPT ![t].ret = "None", ![t].rows = <<>>, ![t].at = "end", ![t].ph = "exit"]
    /\ UNCHANGED <<counters, latencies, incSince, incOwed, latSince, cleared, impV, evtV, cfgV,
                   sesV, clock>>

\* pop_gauges()
PopGauges(t) ==
    /\ th[t].ph = "idle"
    /\ th' = [th EXCEPT ![t] = Call("pop_gauges", "gauge_pop", <<>>)]
    /\ UNCHANGED <<impV, evtV, telV, cfgV, sesV, clock>>

\* DbClient.pop(GaugeModel): rows = query.all()
PopGauges_read(t) ==
    /\ th[t].at = "gauge_pop" /\ th[t].ph = "body"
    /\ \E rows \in AnyOrder(gauges) :
          th' = [th EXCEPT ![t].rows = rows, ![t].ph = "write"]
    /\ UNCHANGED <<impV, evtV, telV, cfgV, sesV, clock>>

\* DbClient.pop: delete every row read, commit; pop_gauges builds the dict.
PopGauges_delete(t) ==
    /\ th[t].at = "gauge_pop" /\ th[t].ph = "write"
    /\ gauges' = gauges \ Range(th[t].rows)
    /\ th' = [th EXCEPT ![t].out = RowsAsDict(th[t].rows), ![t].ret = "dict",
                        ![t].rows = <<>>, ![t].at = "end", ![t].ph = "exit"]
    /\ UNCHANGED <<counters, latencies, incSince, incOwed, latSince, cleared, impV, evtV, cfgV,
                   sesV, clock>>

\* clear(): three delete_all calls, each a db_session of its own
TelemetryClear(t) ==
    /\ th[t].ph = "idle"
    /\ th' = [th EXCEPT ![t] = Call("tel_clear", "tel_clear_lat", <<>>)]
    /\ cleared' = cleared \ {"telemetry"}
    /\ UNCHANGED <<counters, gauges, latencies, incSince, incOwed, latSince, impV, evtV, cfgV, sesV, clock>>

\* self._db_client.delete_all(LatencyModel)
TelemetryClear_latencies(t) ==
    /\ th[t].at = "tel_clear_lat" /\ th[t].ph = "body"
    /\ latencies' = DeleteAll(latencies)
    /\ latSince' = [n \in LatencyNames |-> [b \in BucketInputs \cup Buckets |-> 0]]
    /\ th' = [th EXCEPT ![t].at = "tel_clear_ctr", ![t].ph = "exit"]
    /\ UNCHANGED <<counters, gauges, incSince, incOwed, cleared, impV, evtV, cfgV, sesV, clock>>

\* self._db_client.delete_all(CounterModel)
TelemetryClear_counters(t) ==
    /\ th[t].at = "tel_clear_ctr" /\ th[t].ph = "body"
    /\ counters' = DeleteAll(counters)
    /\ incSince' = [n \in CounterNames |-> 0]
    /\ incOwed' = [n \in CounterNames |-> 0]
    /\ th' = [th EXCEPT ![t].at = "tel_clear_gauge", ![t].ph = "exit"]
    /\ UNCHANGED <<gauges, latencies, latSince, cleared, impV, evtV, cfgV, sesV, clock>>

\* self._db_client.delete_all(GaugeModel); clear returns None
TelemetryClear_gauges(t) ==
    /\ th[t].at = "tel_clear_gauge" /\ th[t].ph = "body"
    /\ gauges' = DeleteAll(gauges)
    /\ cleared' = cleared \cup {"telemetry"}
    /\ th' = [th EXCEPT ![t].ret = "None", ![t].at = "end", ![t].ph = "exit"]
    /\ UNCHANGED <<counters, latencies, incSince, incOwed, latSince, impV, evtV, cfgV,
                   sesV, clock>>

TelemetryClearStep(t) ==
    \/ TelemetryClear(t)
    \/ TelemetryClear_latencies(t)
    \/ TelemetryClear_counters(t)
    \/ TelemetryClear_gauges(t)

GaugeStep(t) ==
    \/ PutGauge(t)
    \/ PutGauge_read(t)
    \/ PutGauge_write(t)
    \/ PopGauges(t)
    \/ PopGauges_read(t)
    \/ PopGauges_delete(t)

IncLatencyStep(t) ==
    \/ IncLatency(t)
    \/ IncLatency_read(t)
    \/ IncLatency_create(t)
    \/ IncLatency_incr(t)

PopLatenciesStep(t) ==
    \/ PopLatencies(t)
    \/ PopLatencies_read(t)
    \/ PopLatencies_delete(t)

IncCounterStep(t) ==
    \/ IncCounter(t)
    \/ IncCounter_read(t)
    \/ IncCounter_create(t)
    \/ IncCounter_incr(t)

PopCountersStep(t) ==
    \/ PopCounters(t)
    \/ PopCounters_read(t)
    \/ PopCounters_delete(t)

\* -------------------------------------------------------- SqlSplitStorage
\* The Split objects the callers put.
SplitInputs ==
    [name : SplitNames, traffic_type_name : TrafficTypes, killed : {FALSE},
     default_treatment : {"off"}, change_number : ChangeNumbers]

\* json.dumps(split.to_json())
ToJson(split) ==
    [name |-> split.name, trafficTypeName |-> split.traffic_type_name,
     killed |-> split.killed, defaultTreatment |-> split.default_treatment,
     changeNumber |-> split.change_number]

\* splits.from_raw(json.loads(record.json_data))
FromRaw(json) ==
    [name |-> json.name, traffic_type_name |-> json.trafficTypeName,
     killed |-> json.killed, default_treatment |-> json.defaultTreatment,
     change_number |-> json.changeNumber]

\* split.local_kill(default_treatment, change_number)
LocalKill(split, default_treatment, change_number) ==
    [split EXCEPT !.killed = TRUE, !.default_treatment = default_treatment,
                  !.change_number = change_number]

SplitLockAvailable_NoLock == TRUE

\* with self._lock: the lock can be taken.  threading.Lock is not reentrant.
SplitLockAvailable == splitLock = NoThread

StoredChangeNumber_RowCount == Cardinality(ByName(metadata, "change_number"))

\* get_change_number(): the number of the 'change_number' row, 0 without one
StoredChangeNumber ==
    IF ByName(metadata, "change_number") = {} THEN 0
    ELSE (CHOOSE r \in ByName(metadata, "change_number") : TRUE).number

\* put(split)
SplitPut(t) ==
    /\ th[t].ph = "idle"
    /\ \E split \in SplitInputs :
          th' = [th EXCEPT ![t] =
                    [Call("split_put", "spl_put_lock", <<split>>) EXCEPT !.loc = split]]
    /\ UNCHANGED <<impV, evtV, telV, cfgV, sesV, clock>>

\* put: with self._lock (also when put is called by kill_locally)
SplitPut_lock(t) ==
    /\ th[t].at = "spl_put_lock" /\ th[t].ph = "ready"
    /\ SplitLockAvailable
    /\ splitLock' = t
    /\ th' = [th EXCEPT ![t].at = "spl_put_get"]
    /\ UNCHANGED <<splits, metadata, segments, segmentKeys, mySegments, impV, evtV, telV, sesV, clock>>

\* put: existing_split_record = self._get_split_record(split.name)
SplitPut_get(t) ==
    /\ th[t].at = "spl_put_get" /\ th[t].ph = "body"
    /\ LET found == ByName(splits, th[t].loc.name)
       IN th' = [th EXCEPT ![t] =
              IF Cardinality(found) > 1
              THEN [@ EXCEPT !.ret = "MultipleResultsFound",
                             !.at = "spl_put_unlock", !.ph = "exit"]
              ELSE [@ EXCEPT !.rows = IF found = {} THEN <<>>
                                      ELSE <<CHOOSE r \in found : TRUE>>,
                             !.at = "spl_put_merge", !.ph = "exit"]]
    /\ UNCHANGED <<impV, evtV, telV, cfgV, sesV, clock>>

\* put: merge_and_commit of a new SplitModel, or of the record read with its
\* traffic_type_name and json_data replaced.  merge finds the row by primary
\* key and inserts it when it is gone.
SplitPut_merge(t) ==
    /\ th[t].at = "spl_put_merge" /\ th[t].ph = "body"
    /\ LET split == th[t].loc
           row == IF th[t].rows = <<>>
                  THEN [id |-> NewId(splits, 1), name |-> split.name,
                        traffic_type_name |-> split.traffic_type_name,
                        json_data |-> ToJson(split)]
                  ELSE [th[t].rows[1] EXCEPT
                           !.traffic_type_name = split.traffic_type_name,
                           !.json_data = ToJson(split)]
       IN splits' = {r \in splits : r.id # row.id} \cup {row}
    /\ th' = [th EXCEPT ![t].at = "spl_put_unlock", ![t].ph = "exit"]
    /\ UNCHANGED <<metadata, segments, segmentKeys, mySegments, splitLock, impV, evtV, telV, sesV, clock>>

\* put: the end of the with block; put returns, to kill_locally when that
\* called it.
SplitPut_unlock(t) ==
    /\ th[t].at = "spl_put_unlock" /\ th[t].ph = "ready"
    /\ splitLock' = NoThread
    /\ th' = [th EXCEPT ![t] =
                 IF th[t].nested
                 THEN [@ EXCEPT !.at = "kill_unlock", !.nested = FALSE]
                 ELSE [@ EXCEPT !.at = "end", !.ph = "idle",
                                !.ret = IF @ = "none" THEN "None" ELSE @]]
    /\ UNCHANGED <<splits, metadata, segments, segmentKeys, mySegments, impV, evtV, telV, sesV, clock>>

\* remove(split_name)
SplitRemove(t) ==
    /\ th[t].ph = "idle"
    /\ \E name \in SplitNames :
          th' = [th EXCEPT ![t] = Call("split_remove", "spl_rm_lock", <<name>>)]
    /\ UNCHANGED <<impV, evtV, telV, cfgV, sesV, clock>>

SplitRemove_lock(t) ==
    /\ th[t].at = "spl_rm_lock" /\ th[t].ph = "ready"
    /\ SplitLockAvailable
    /\ splitLock' = t
    /\ th' = [th EXCEPT ![t].at = "spl_rm_get"]
    /\ UNCHANGED <<splits, metadata, segments, segmentKeys, mySegments, impV, evtV, telV, sesV, clock>>

\* remove: existing_split = self.get(split_name); return False when None
SplitRemove_get(t) ==
    /\ th[t].at = "spl_rm_get" /\ th[t].ph = "body"
    /\ LET found == ByName(splits, th[t].arg[1])
       IN th' = [th EXCEPT ![t] =
              IF Cardinality(found) > 1
              THEN [@ EXCEPT !.ret = "MultipleResultsFound",
                             !.at = "spl_rm_unlock", !.ph = "exit"]
              ELSE IF found = {}
              THEN [@ EXCEPT !.ret = "False", !.at = "spl_rm_unlock", !.ph = "exit"]
              ELSE [@ EXCEPT !.at = "spl_rm_delete", !.ph = "exit"]]
    /\ UNCHANGED <<impV, evtV, telV, cfgV, sesV, clock>>

SplitRemove_delete_Unfiltered(t) ==
    /\ th[t].at = "spl_rm_delete" /\ th[t].ph = "body"
    /\ splits' = {}
    /\ th' = [th EXCEPT ![t].ret = "True", ![t].at = "spl_rm_unlock", ![t].ph = "exit"]
    /\ UNCHANGED <<metadata, segments, segmentKeys, mySegments, splitLock, impV, evtV, telV, sesV, clock>>

\* remove: delete_all(SplitModel, SplitModel.name == split_name); return True
SplitRemove_delete(t) ==
    /\ th[t].at = "spl_rm_delete" /\ th[t].ph = "body"
    /\ splits' = splits \ ByName(splits, th[t].arg[1])
    /\ th' = [th EXCEPT ![t].ret = "True", ![t].at = "spl_rm_unlock", ![t].ph = "exit"]
    /\ UNCHANGED <<metadata, segments, segmentKeys, mySegments, splitLock, impV, evtV, telV, sesV, clock>>

SplitRemove_unlock(t) ==
    /\ th[t].at = "spl_rm_unlock" /\ th[t].ph = "ready"
    /\ splitLock' = NoThread
    /\ th' = [th EXCEPT ![t].at = "end", ![t].ph = "idle"]
    /\ UNCHANGED <<splits, metadata, segments, segmentKeys, mySegments, impV, evtV, telV, sesV, clock>>

\* set_change_number(new_change_number)
SplitSetChangeNumber(t) ==
    /\ th[t].ph = "idle"
    /\ \E n \in ChangeNumbers :
          th' = [th EXCEPT ![t] = Call("split_set_change_number", "spl_setcn", <<n>>)]
    /\ UNCHANGED <<impV, evtV, telV, cfgV, sesV, clock>>

\* update_or_insert: existing_record = query.filter_by(name='change_number')
SplitSetChangeNumber_read(t) ==
    /\ th[t].at = "spl_setcn" /\ th[t].ph = "body"
    /\ th' = [th EXCEPT ![t].rows =
                 IF ByName(metadata, "change_number") = {} THEN <<>>
                 ELSE <<CHOOSE r \in ByName(metadata, "change_number") : TRUE>>,
              ![t].ph = "write"]
    /\ UNCHANGED <<impV, evtV, telV, cfgV, sesV, clock>>

\* update_or_insert: add the new row, or set number on the row read; commit.
\* name is the primary key: a second insert of 'change_number' fails.
SplitSetChangeNumber_write(t) ==
    /\ th[t].at = "spl_setcn" /\ th[t].ph = "write"
    /\ IF th[t].rows = <<>> /\ ByName(metadata, "change_number") # {}
       THEN /\ th' = [th EXCEPT ![t].ret = "IntegrityError",
                                ![t].at = "end", ![t].ph = "exit"]
            /\ UNCHANGED metadata
       ELSE /\ metadata' = {[name |-> "change_number", number |-> th[t].arg[1]]}
            /\ th' = [th EXCEPT ![t].ret = "None", ![t].at = "end", ![t].ph = "exit"]
    /\ UNCHANGED <<splits, segments, segmentKeys, mySegments, splitLock, impV, evtV, telV, sesV, clock>>

\* kill_locally(split_name, default_treatment, change_number)
SplitKillLocally(t) ==
    /\ th[t].ph = "idle"
    /\ \E name \in SplitNames : \E cn \in ChangeNumbers :
          th' = [th EXCEPT ![t] = Call("kill_locally", "kill_lock", <<name, "killed", cn>>)]
    /\ UNCHANGED <<impV, evtV, telV, cfgV, sesV, clock>>

\* kill_locally: with self._lock
SplitKillLocally_lock(t) ==
    /\ th[t].at = "kill_lock" /\ th[t].ph = "ready"
    /\ SplitLockAvailable
    /\ splitLock' = t
    /\ th' = [th EXCEPT ![t].at = "kill_getcn"]
    /\ UNCHANGED <<splits, metadata, segments, segmentKeys, mySegments, impV, evtV, telV, sesV, clock>>

\* kill_locally: if self.get_change_number() > change_number: return
SplitKillLocally_getcn(t) ==
    /\ th[t].at = "kill_getcn" /\ th[t].ph = "body"
    /\ th' = [th EXCEPT
                 ![t].at = IF StoredChangeNumber > th[t].arg[3]
                           THEN "kill_unlock" ELSE "kill_get",
                 ![t].ph = "exit"]
    /\ UNCHANGED <<impV, evtV, telV, cfgV, sesV, clock>>

\* kill_locally: split = self.get(split_name); return when there is none;
\* split.local_kill(default_treatment, change_number); then self.put(split)
SplitKillLocally_get(t) ==
    /\ th[t].at = "kill_get" /\ th[t].ph = "body"
    /\ LET found == ByName(splits, th[t].arg[1])
       IN th' = [th EXCEPT ![t] =
              IF Cardinality(found) > 1
              THEN [@ EXCEPT !.ret = "MultipleResultsFound",
                             !.at = "kill_unlock", !.ph = "exit"]
              ELSE IF found = {}
              THEN [@ EXCEPT !.at = "kill_unlock", !.ph = "exit"]
              ELSE [@ EXCEPT
                       !.loc = LocalKill(FromRaw((CHOOSE r \in found : TRUE).json_data),
                                         th[t].arg[2], th[t].arg[3]),
                       !.nested = TRUE, !.at = "spl_put_lock", !.ph = "exit"]]
    /\ UNCHANGED <<impV, evtV, telV, cfgV, sesV, clock>>

\* kill_locally: the end of its with block
SplitKillLocally_unlock(t) ==
    /\ th[t].at = "kill_unlock" /\ th[t].ph = "ready"
    /\ splitLock' = IF splitLock = t THEN NoThread ELSE splitLock
    /\ th' = [th EXCEPT ![t].at = "end", ![t].ph = "idle",
                        ![t].ret = IF splitLock # t THEN "RuntimeError"
                                   ELSE IF th[t].ret = "none" THEN "None"
                                   ELSE th[t].ret]
    /\ UNCHANGED <<splits, metadata, segments, segmentKeys, mySegments, impV, evtV, telV, sesV, clock>>

TrafficTypeRows_Any(traffic_type_name) == splits

\* query(SplitModel).filter(SplitModel.traffic_type_name == traffic_type_name)
TrafficTypeRows(traffic_type_name) ==
    {r \in splits : r.traffic_type_name = traffic_type_name}

\* is_valid_traffic_type(traffic_type_name)
SplitIsValidTrafficType(t) ==
    /\ th[t].ph = "idle"
    /\ \E tt \in TrafficTypes :
          th' = [th EXCEPT ![t] = Call("is_valid_traffic_type", "spl_valid_tt", <<tt>>)]
    /\ UNCHANGED <<impV, evtV, telV, cfgV, sesV, clock>>

\* is_valid_traffic_type: get_first(...) is not None
SplitIsValidTrafficType_read(t) ==
    /\ th[t].at = "spl_valid_tt" /\ th[t].ph = "body"
    /\ th' = [th EXCEPT ![t].ret = IF TrafficTypeRows(th[t].arg[1]) = {}
                                   THEN "False" ELSE "True",
                        ![t].at = "end", ![t].ph = "exit"]
    /\ UNCHANGED <<impV, evtV, telV, cfgV, sesV, clock>>

\* get(split_name)
SplitGet(t) ==
    /\ th[t].ph = "idle"
    /\ \E name \in SplitNames :
          th' = [th EXCEPT ![t] = Call("split_get", "spl_get", <<name>>)]
    /\ UNCHANGED <<impV, evtV, telV, cfgV, sesV, clock>>

\* get: record = self._get_split_record(split_name); None, or the split of
\* the record
SplitGet_read(t) ==
    /\ th[t].at = "spl_get" /\ th[t].ph = "body"
    /\ LET found == ByName(splits, th[t].arg[1])
       IN th' = [th EXCEPT ![t] =
              IF OneOrNone(found) = "MultipleResultsFound"
              THEN [@ EXCEPT !.ret = "MultipleResultsFound", !.at = "end", !.ph = "exit"]
              ELSE IF OneOrNone(found) = "None"
              THEN [@ EXCEPT !.out = <<>>, !.ret = "None", !.at = "end", !.ph = "exit"]
              ELSE [@ EXCEPT !.out = <<FromRaw((CHOOSE r \in found : TRUE).json_data)>>,
                             !.ret = "Split", !.at = "end", !.ph = "exit"]]
    /\ UNCHANGED <<impV, evtV, telV, cfgV, sesV, clock>>

\* get_split_names()
SplitGetSplitNames(t) ==
    /\ th[t].ph = "idle"
    /\ th' = [th EXCEPT ![t] = Call("get_split_names", "spl_names", <<>>)]
    /\ UNCHANGED <<impV, evtV, telV, cfgV, sesV, clock>>

\* get_split_names: list(set(record.name for record in get_all(SplitModel)))
SplitGetSplitNames_read(t) ==
    /\ th[t].at = "spl_names" /\ th[t].ph = "body"
    /\ th' = [th EXCEPT ![t].out = SetToSeq({r.name : r \in splits}),
                        ![t].ret = "list", ![t].at = "end", ![t].ph = "exit"]
    /\ UNCHANGED <<impV, evtV, telV, cfgV, sesV, clock>>

\* get_change_number()
SplitGetChangeNumber(t) ==
    /\ th[t].ph = "idle"
    /\ th' = [th EXCEPT ![t] = Call("split_get_change_number", "spl_getcn", <<>>)]
    /\ UNCHANGED <<impV, evtV, telV, cfgV, sesV, clock>>

\* get_change_number: get_one_or_none(MetadataModel, name == 'change_number');
\* record.number, or 0 without a record
SplitGetChangeNumber_read(t) ==
    /\ th[t].at = "spl_getcn" /\ th[t].ph = "body"
    /\ th' = [th EXCEPT ![t].out = <<StoredChangeNumber>>, ![t].ret = "int",
                        ![t].at = "end", ![t].ph = "exit"]
    /\ UNCHANGED <<impV, evtV, telV, cfgV, sesV, clock>>

\* The name lists a caller passes to fetch_many.
SplitNameLists ==
    {<<>>} \cup {<<a>> : a \in SplitNames} \cup {<<a, b>> : a \in SplitNames, b \in SplitNames}

\* get_all(SplitModel, SplitModel.name.in_(split_names), group_by=SplitModel.name):
\* the possible results, one row for every requested name that has rows
GroupedByName(split_names) ==
    LET named == {n \in Range(split_names) : ByName(splits, n) # {}}
    IN {Range(pick) : pick \in {f \in [named -> splits] : \A n \in named : f[n].name = n}}

FetchManyDict_FoundOnly(split_names, records) ==
    [name \in {r.name : r \in records} |->
        <<FromRaw((CHOOSE r \in records : r.name = name).json_data)>>]

\* split_dict = {name: None for name in split_names}, then
\* split_dict[record.name] = the split of the record, for every record
FetchManyDict(split_names, records) ==
    [name \in Range(split_names) \cup {r.name : r \in records} |->
        IF \E r \in records : r.name = name
        THEN <<FromRaw((CHOOSE r \in records : r.name = name).json_data)>>
        ELSE <<>>]

\* fetch_many(split_names)
SplitFetchMany(t) ==
    /\ th[t].ph = "idle"
    /\ \E names \in SplitNameLists :
          th' = [th EXCEPT ![t] = Call("fetch_many", "spl_fetch", <<names>>)]
    /\ UNCHANGED <<impV, evtV, telV, cfgV, sesV, clock>>

SplitFetchMany_read(t) ==
    /\ th[t].at = "spl_fetch" /\ th[t].ph = "body"
    /\ \E records \in GroupedByName(th[t].arg[1]) :
          th' = [th EXCEPT ![t].out = FetchManyDict(th[t].arg[1], records),
                           ![t].ret = "dict", ![t].at = "end", ![t].ph = "exit"]
    /\ UNCHANGED <<impV, evtV, telV, cfgV, sesV, clock>>

\* The methods of the split store that only read.
SplitReadStep(t) ==
    \/ SplitFetchMany(t)
    \/ SplitFetchMany_read(t)
    \/ SplitGetChangeNumber(t)
    \/ SplitGetChangeNumber_read(t)
    \/ SplitGet(t)
    \/ SplitGet_read(t)
    \/ SplitGetSplitNames(t)
    \/ SplitGetSplitNames_read(t)
    \/ SplitIsValidTrafficType(t)
    \/ SplitIsValidTrafficType_read(t)

SplitStep(t) ==
    \/ SplitPut(t)
    \/ SplitPut_lock(t)
    \/ SplitPut_get(t)
    \/ SplitPut_merge(t)
    \/ SplitPut_unlock(t)
    \/ SplitRemove(t)
    \/ SplitRemove_lock(t)
    \/ SplitRemove_get(t)
    \/ SplitRemove_delete(t)
    \/ SplitRemove_unlock(t)
    \/ SplitSetChangeNumber(t)
    \/ SplitSetChangeNumber_read(t)
    \/ SplitSetChangeNumber_write(t)
    \/ SplitKillLocally(t)
    \/ SplitKillLocally_lock(t)
    \/ SplitKillLocally_getcn(t)
    \/ SplitKillLocally_get(t)
    \/ SplitKillLocally_unlock(t)

\* ------------------------------------------------------ SqlSegmentStorage
\* change_number=None, and the NULL foreign key of a key row that belongs to no
\* segment.
NoNumber == -1

\* get_one_or_none(SegmentModel, name == ...) with its keys (lazy='joined'):
\* the record as the caller holds it after the session is closed.
SegmentRecord(row) ==
    [id |-> row.id, name |-> row.name, change_number |-> row.change_number,
     keys |-> {k \in segmentKeys : k.model_id = row.id}, add |-> {}]

\* SegmentModel(name=..., change_number=...): a record not stored yet
NewSegmentRecord(name, change_number) ==
    [id |-> 0, name |-> name, change_number |-> change_number, keys |-> {}, add |-> {}]

\* The id merge_and_commit(record) stores the segment under.
MergedId(record) == IF record.id = 0 THEN NewId(segments, 1) ELSE record.id

MergedSegments_KeepsNumber(record) ==
    IF \E r \in segments : r.id = MergedId(record) THEN segments
    ELSE segments \cup {[id |-> MergedId(record), name |-> record.name,
                         change_number |-> record.change_number]}

\* merge_and_commit(record), table split_segments: the row with the record's
\* primary key gets the record's column values; without such a row one is
\* inserted.
MergedSegments(record) ==
    {r \in segments : r.id # MergedId(record)} \cup
        {[id |-> MergedId(record), name |-> record.name,
          change_number |-> record.change_number]}

MergedSegmentKeys_KeepsRemoved(record) ==
    LET sid == MergedId(record)
        added == SetToSeq(record.add)
    IN segmentKeys
       \cup {[id |-> NewId(segmentKeys, i), name |-> added[i], model_id |-> sid] :
                i \in DOMAIN added}

\* merge_and_commit(record), table split_segment_keys: the keys of the record
\* belong to the segment, new SegmentKeyModel objects are inserted, and every
\* other key row of the segment loses its model_id (the relationship has no
\* delete cascade).
MergedSegmentKeys(record) ==
    LET sid == MergedId(record)
        kept == {k.id : k \in record.keys}
        added == SetToSeq(record.add)
    IN {IF k.id \in kept THEN [k EXCEPT !.model_id = sid]
        ELSE IF k.model_id = sid THEN [k EXCEPT !.model_id = NoNumber]
        ELSE k : k \in segmentKeys}
       \cup {[id |-> NewId(segmentKeys, i), name |-> added[i], model_id |-> sid] :
                i \in DOMAIN added}

\* The rows a store call may still add without passing the bounds of the model.
SegmentRoom(n) ==
    /\ Cardinality(segments) < MaxSegmentRows
    /\ Cardinality(segmentKeys) + n <= MaxKeyRows

\* The frame of a store method that returns ret: its locals are gone.
SegmentReturn(frame, ret) ==
    [frame EXCEPT !.ret = ret, !.at = "end", !.ph = "exit", !.rows = <<>>]

\* get_one_or_none(SegmentModel, SegmentModel.name == name), as put, update and
\* set_change_number call it: the thread's frame after the call.
SegmentLookup(frame, name, next) ==
    LET found == ByName(segments, name)
    IN IF Cardinality(found) > 1
       THEN SegmentReturn(frame, "MultipleResultsFound")
       ELSE [frame EXCEPT !.rows = IF found = {} THEN <<>>
                                   ELSE <<SegmentRecord(CHOOSE r \in found : TRUE)>>,
                          !.at = next, !.ph = "exit"]

\* put(segment)
SegmentPut(t) ==
    /\ th[t].ph = "idle"
    /\ \E name \in SegmentNames : \E keys \in SUBSET SegmentKeyNames :
       \E cn \in ChangeNumbers :
          /\ SegmentRoom(Cardinality(keys))
          /\ th' = [th EXCEPT ![t] =
                [Call("segment_put", "seg_put_get",
                      <<[name |-> name, keys |-> keys, change_number |-> cn]>>)
                 EXCEPT !.raced = \E u \in Threads \ {t} :
                                     /\ th[u].op \in {"segment_put", "segment_update"}
                                     /\ th[u].ph # "idle"]]
    /\ UNCHANGED <<impV, evtV, telV, cfgV, sesV, clock>>

SegmentPut_get(t) ==
    /\ th[t].at = "seg_put_get" /\ th[t].ph = "body"
    /\ th' = [th EXCEPT ![t] = SegmentLookup(@, th[t].arg[1].name, "seg_put_merge")]
    /\ UNCHANGED <<impV, evtV, telV, cfgV, sesV, clock>>

\* put: a new SegmentModel when none was found; record.keys = [new
\* SegmentKeyModel objects]; merge_and_commit(record)
SegmentPut_merge(t) ==
    /\ th[t].at = "seg_put_merge" /\ th[t].ph = "body"
    /\ LET segment == th[t].arg[1]
           base == IF th[t].rows = <<>>
                   THEN NewSegmentRecord(segment.name, segment.change_number)
                   ELSE th[t].rows[1]
           record == [base EXCEPT !.keys = {}, !.add = segment.keys]
       IN /\ segments' = MergedSegments(record)
          /\ segmentKeys' = MergedSegmentKeys(record)
    /\ th' = [th EXCEPT ![t] = SegmentReturn(@, "None")]
    /\ UNCHANGED <<splits, metadata, mySegments, splitLock, impV, evtV, telV, sesV, clock>>

\* update(segment_name, to_add, to_remove, change_number=None)
SegmentUpdate(t) ==
    /\ th[t].ph = "idle"
    /\ \E name \in SegmentNames : \E add \in SUBSET SegmentKeyNames :
       \E remove \in SUBSET SegmentKeyNames : \E cn \in ChangeNumbers \cup {NoNumber} :
          /\ SegmentRoom(Cardinality(add))
          /\ th' = [th EXCEPT ![t] =
                [Call("segment_update", "seg_upd_get", <<name, add, remove, cn>>)
                 EXCEPT !.raced = \E u \in Threads \ {t} :
                                     /\ th[u].op \in {"segment_put", "segment_update"}
                                     /\ th[u].ph # "idle"]]
    /\ UNCHANGED <<impV, evtV, telV, cfgV, sesV, clock>>

SegmentUpdate_get(t) ==
    /\ th[t].at = "seg_upd_get" /\ th[t].ph = "body"
    /\ th' = [th EXCEPT ![t] = SegmentLookup(@, th[t].arg[1], "seg_upd_merge")]
    /\ UNCHANGED <<impV, evtV, telV, cfgV, sesV, clock>>

\* update: a new SegmentModel when none was found; the keys not in to_remove
\* stay, one new SegmentKeyModel per member of to_add is appended, the change
\* number is set when one was given; merge_and_commit(record)
SegmentUpdate_merge(t) ==
    /\ th[t].at = "seg_upd_merge" /\ th[t].ph = "body"
    /\ LET base == IF th[t].rows = <<>>
                   THEN NewSegmentRecord(th[t].arg[1], th[t].arg[4])
                   ELSE th[t].rows[1]
           record == [base EXCEPT
                         !.keys = {k \in base.keys : k.name \notin th[t].arg[3]},
                         !.add = th[t].arg[2],
                         !.change_number = IF th[t].arg[4] # NoNumber
                                           THEN th[t].arg[4] ELSE @]
       IN /\ segments' = MergedSegments(record)
          /\ segmentKeys' = MergedSegmentKeys(record)
    /\ th' = [th EXCEPT ![t] = SegmentReturn(@, "None")]
    /\ UNCHANGED <<splits, metadata, mySegments, splitLock, impV, evtV, telV, sesV, clock>>

\* set_change_number(segment_name, new_change_number)
SegmentSetChangeNumber(t) ==
    /\ th[t].ph = "idle"
    /\ \E name \in SegmentNames : \E cn \in ChangeNumbers :
          th' = [th EXCEPT ![t] =
                    Call("segment_set_change_number", "seg_setcn_get", <<name, cn>>)]
    /\ UNCHANGED <<impV, evtV, telV, cfgV, sesV, clock>>

\* set_change_number: nothing more to do when no record was found
SegmentSetChangeNumber_get(t) ==
    /\ th[t].at = "seg_setcn_get" /\ th[t].ph = "body"
    /\ th' = [th EXCEPT ![t] =
                 IF ByName(segments, th[t].arg[1]) = {}
                 THEN SegmentReturn(@, "None")
                 ELSE SegmentLookup(@, th[t].arg[1], "seg_setcn_merge")]
    /\ UNCHANGED <<impV, evtV, telV, cfgV, sesV, clock>>

\* set_change_number: record.change_number = new_change_number;
\* merge_and_commit(record)
SegmentSetChangeNumber_merge(t) ==
    /\ th[t].at = "seg_setcn_merge" /\ th[t].ph = "body"
    /\ LET record == [th[t].rows[1] EXCEPT !.change_number = th[t].arg[2]]
       IN /\ segments' = MergedSegments(record)
          /\ segmentKeys' = MergedSegmentKeys(record)
    /\ th' = [th EXCEPT ![t] = SegmentReturn(@, "None")]
    /\ UNCHANGED <<splits, metadata, mySegments, splitLock, impV, evtV, telV, sesV, clock>>

\* get: segments.Segment(segment_name, [key.name for key in record.keys],
\* record.change_number); the Segment keeps the keys as a set.
SegmentOf(row) ==
    [name |-> row.name,
     keys |-> {k.name : k \in {x \in segmentKeys : x.model_id = row.id}},
     change_number |-> row.change_number]

\* get(segment_name)
SegmentGet(t) ==
    /\ th[t].ph = "idle"
    /\ \E name \in SegmentNames :
          th' = [th EXCEPT ![t] = Call("segment_get", "seg_get", <<name>>)]
    /\ UNCHANGED <<impV, evtV, telV, cfgV, sesV, clock>>

\* get: get_one_or_none, then the Segment of the record, or None
SegmentGet_read(t) ==
    /\ th[t].at = "seg_get" /\ th[t].ph = "body"
    /\ LET found == ByName(segments, th[t].arg[1])
       IN th' = [th EXCEPT ![t] =
              IF OneOrNone(found) = "MultipleResultsFound"
              THEN SegmentReturn(@, "MultipleResultsFound")
              ELSE IF OneOrNone(found) = "None"
              THEN SegmentReturn([@ EXCEPT !.out = <<>>], "None")
              ELSE SegmentReturn([@ EXCEPT !.out = <<SegmentOf(CHOOSE r \in found : TRUE)>>],
                                 "Segment")]
    /\ UNCHANGED <<impV, evtV, telV, cfgV, sesV, clock>>

\* get_change_number(segment_name)
SegmentGetChangeNumber(t) ==
    /\ th[t].ph = "idle"
    /\ \E name \in SegmentNames :
          th' = [th EXCEPT ![t] = Call("segment_get_change_number", "seg_getcn", <<name>>)]
    /\ UNCHANGED <<impV, evtV, telV, cfgV, sesV, clock>>

\* get_change_number: segment = self.get(name); None, or segment.change_number
SegmentGetChangeNumber_read(t) ==
    /\ th[t].at = "seg_getcn" /\ th[t].ph = "body"
    /\ LET found == ByName(segments, th[t].arg[1])
       IN th' = [th EXCEPT ![t] =
              IF OneOrNone(found) = "MultipleResultsFound"
              THEN SegmentReturn(@, "MultipleResultsFound")
              ELSE IF OneOrNone(found) = "None"
              THEN SegmentReturn([@ EXCEPT !.out = <<>>], "None")
              ELSE SegmentReturn(
                      [@ EXCEPT !.out = <<SegmentOf(CHOOSE r \in found : TRUE).change_number>>],
                      "int")]
    /\ UNCHANGED <<impV, evtV, telV, cfgV, sesV, clock>>

\* The key rows segment_contains's query selects: SegmentKeyModel.name == key
\* and SegmentKeyModel.model.has(name=segment_name).
ContainsRows(name, key) ==
    {k \in segmentKeys :
        /\ k.name = key
        /\ \E r \in segments : r.id = k.model_id /\ r.name = name}

\* segment_contains(segment_name, key)
SegmentContains(t) ==
    /\ th[t].ph = "idle"
    /\ \E name \in SegmentNames : \E key \in SegmentKeyNames :
          th' = [th EXCEPT ![t] = Call("segment_contains", "seg_contains", <<name, key>>)]
    /\ UNCHANGED <<impV, evtV, telV, cfgV, sesV, clock>>

\* segment_contains: get_one_or_none(SegmentKeyModel, ...) is not None
SegmentContains_read(t) ==
    /\ th[t].at = "seg_contains" /\ th[t].ph = "body"
    /\ LET found == ContainsRows(th[t].arg[1], th[t].arg[2])
       IN th' = [th EXCEPT ![t] =
              SegmentReturn(@, IF OneOrNone(found) = "MultipleResultsFound"
                               THEN "MultipleResultsFound"
                               ELSE IF OneOrNone(found) = "None" THEN "False" ELSE "True")]
    /\ UNCHANGED <<impV, evtV, telV, cfgV, sesV, clock>>

SegmentStep(t) ==
    \/ SegmentGet(t)
    \/ SegmentGet_read(t)
    \/ SegmentContains(t)
    \/ SegmentContains_read(t)
    \/ SegmentGetChangeNumber(t)
    \/ SegmentGetChangeNumber_read(t)
    \/ SegmentPut(t)
    \/ SegmentPut_get(t)
    \/ SegmentPut_merge(t)
    \/ SegmentUpdate(t)
    \/ SegmentUpdate_get(t)
    \/ SegmentUpdate_merge(t)
    \/ SegmentSetChangeNumber(t)
    \/ SegmentSetChangeNumber_get(t)
    \/ SegmentSetChangeNumber_merge(t)

\* ------------------------------------------------- SqlMySegmentsStorage
\* The segment name lists a caller passes to put.
MySegmentLists ==
    {<<>>} \cup {<<a>> : a \in MySegmentNames}
           \cup {<<a, b>> : a \in MySegmentNames, b \in MySegmentNames}

\* query.filter(MySegmentModel.traffic_key == traffic_key)
ByTrafficKey(table, key) == {r \in table : r.traffic_key = key}

\* put(traffic_key, segment_names)
MySegmentsPut(t) ==
    /\ th[t].ph = "idle"
    /\ \E key \in TrafficKeys : \E names \in MySegmentLists :
          /\ NewId(mySegments, Len(names)) <= MaxMySegmentId
          /\ th' = [th EXCEPT ![t] =
                       Call("my_segments_put", "myseg_put_delete", <<key, names>>)]
    /\ UNCHANGED <<impV, evtV, telV, cfgV, sesV, clock>>

\* put: delete_all(MySegmentModel, traffic_key == traffic_key), which is
\* query.filter(...).delete(); commit. The frame keeps the rows the delete
\* matched until put returns.
MySegmentsPut_delete(t) ==
    /\ th[t].at = "myseg_put_delete" /\ th[t].ph = "body"
    /\ mySegments' = mySegments \ ByTrafficKey(mySegments, th[t].arg[1])
    /\ th' = [th EXCEPT ![t].at = "myseg_put_merge", ![t].ph = "exit",
                        ![t].rows = SetToSeq(ByTrafficKey(mySegments, th[t].arg[1]))]
    /\ UNCHANGED <<splits, metadata, segments, segmentKeys, splitLock, impV, evtV, telV,
                   sesV, clock>>

\* put: merge_and_commit(*[MySegmentModel(traffic_key=..., segment_name=...)
\* for segment_name in segment_names]): one new row per element of the list
MySegmentsPut_merge(t) ==
    /\ th[t].at = "myseg_put_merge" /\ th[t].ph = "body"
    /\ mySegments' = mySegments \cup
          {[id |-> NewId(mySegments, i), traffic_key |-> th[t].arg[1],
            segment_name |-> th[t].arg[2][i]] : i \in DOMAIN th[t].arg[2]}
    /\ th' = [th EXCEPT ![t] = SegmentReturn(@, "None")]
    /\ UNCHANGED <<splits, metadata, segments, segmentKeys, splitLock, impV, evtV, telV,
                   sesV, clock>>

\* get(traffic_key)
MySegmentsGet(t) ==
    /\ th[t].ph = "idle"
    /\ \E key \in TrafficKeys :
          th' = [th EXCEPT ![t] = Call("my_segments_get", "myseg_get", <<key>>)]
    /\ UNCHANGED <<impV, evtV, telV, cfgV, sesV, clock>>

\* get: [record.name for record in get_all(MySegmentModel, traffic_key == ...)];
\* MySegmentModel has no attribute name.
MySegmentsGet_read(t) ==
    /\ th[t].at = "myseg_get" /\ th[t].ph = "body"
    /\ th' = [th EXCEPT ![t] =
                 IF ByTrafficKey(mySegments, th[t].arg[1]) = {}
                 THEN SegmentReturn([@ EXCEPT !.out = <<>>], "list")
                 ELSE SegmentReturn(@, "AttributeError")]
    /\ UNCHANGED <<impV, evtV, telV, cfgV, sesV, clock>>

\* segment_contains(segment_name, key)
MySegmentsContains(t) ==
    /\ th[t].ph = "idle"
    /\ \E name \in MySegmentNames : \E key \in TrafficKeys :
          th' = [th EXCEPT ![t] =
                    Call("my_segments_contains", "myseg_contains", <<name, key>>)]
    /\ UNCHANGED <<impV, evtV, telV, cfgV, sesV, clock>>

\* segment_contains: get_count(traffic_key == key, segment_name == name) > 0
MySegmentsContains_read(t) ==
    /\ th[t].at = "myseg_contains" /\ th[t].ph = "body"
    /\ th' = [th EXCEPT ![t] =
                 SegmentReturn(@,
                    IF Cardinality({r \in ByTrafficKey(mySegments, th[t].arg[2]) :
                                       r.segment_name = th[t].arg[1]}) > 0
                    THEN "True" ELSE "False")]
    /\ UNCHANGED <<impV, evtV, telV, cfgV, sesV, clock>>

\* clear()
MySegmentsClear(t) ==
    /\ th[t].ph = "idle"
    /\ th' = [th EXCEPT ![t] = Call("my_segments_clear", "myseg_clear", <<>>)]
    /\ UNCHANGED <<impV, evtV, telV, cfgV, sesV, clock>>

\* clear: delete_all(MySegmentModel)
MySegmentsClear_delete(t) ==
    /\ th[t].at = "myseg_clear" /\ th[t].ph = "body"
    /\ mySegments' = {}
    /\ th' = [th EXCEPT ![t] = SegmentReturn(@, "None")]
    /\ UNCHANGED <<splits, metadata, segments, segmentKeys, splitLock, impV, evtV, telV,
                   sesV, clock>>

MySegmentsStep(t) ==
    \/ MySegmentsPut(t)
    \/ MySegmentsPut_delete(t)
    \/ MySegmentsPut_merge(t)
    \/ MySegmentsGet(t)
    \/ MySegmentsGet_read(t)
    \/ MySegmentsContains(t)
    \/ MySegmentsContains_read(t)
    \/ MySegmentsClear(t)
    \/ MySegmentsClear_delete(t)

\* -------------------------------------------------------- specifications
\* One caller on the impression queue.
Next ==
    \/ ImpressionStep(1)
    \/ DbSessionEnter(1)
    \/ DbSessionExit(1)
    \/ ClockAdjust

Spec == Init /\ [][Next]_vars

\* One caller of set_table_full_hook and put on both queues; a hook that is
\* called returns or raises.  The caller hands over few items: one impression
\* is more than the impression queue takes, and the event queue overflows by
\* the bytes of its events.
NextHooks ==
    \/ ImpSetTableFullHook(1)
    \/ ImpPut(1) /\ impPut' <= MaxRaceItems
    \/ ImpPut_merge(1)
    \/ ImpPut_count(1)
    \/ ImpPut_hook(1)
    \/ ImpPut_hookRaises(1)
    \/ EvtSetTableFullHook(1)
    \/ EvtPut(1) /\ evtPut' <= EvtQueueSize
    \/ EvtPut_merge(1)
    \/ EvtPut_count(1)
    \/ EvtPut_sum(1)
    \/ EvtPut_hook(1)
    \/ EvtPut_hookRaises(1)
    \/ DbSessionEnter(1)
    \/ DbSessionExit(1)

SpecHooks == Init /\ [][NextHooks]_vars

\* One caller on the event queue; the wall clock is never set back.
NextEvents ==
    \/ EventStep(1)
    \/ DbSessionEnter(1)
    \/ DbSessionExit(1)

SpecEvents == Init /\ [][NextEvents]_vars

\* One caller of inc_counter and pop_counters.
NextCounter ==
    \/ IncCounterStep(1)
    \/ PopCountersStep(1)
    \/ DbSessionEnter(1)
    \/ DbSessionExit(1)

SpecCounter == Init /\ [][NextCounter]_vars

\* The name the threads of SpecCounterDrain count.
RacedCounter == CHOOSE n \in CounterNames : TRUE

\* Every thread calls inc_counter(RacedCounter) and pop_counters().
NextCounterDrain ==
    \E t \in Threads :
        \/ IncCounterStep(t) /\ (th[t].ph = "idle" => th'[t].arg = <<RacedCounter>>)
        \/ PopCountersStep(t)
        \/ DbSessionEnter(t)
        \/ DbSessionExit(t)

SpecCounterDrain == Init /\ [][NextCounterDrain]_vars

\* Every thread calls inc_counter(RacedCounter), put_gauge("gauge_1", 1),
\* pop_counters() and pop_gauges(): the three read-then-write primitives
\* increment_or_create, update_or_insert and pop.  At most MaxRaceItems
\* inc_counter calls are made between two pop_counters.
NextPrimitives ==
    \E t \in Threads :
        \/ /\ IncCounterStep(t)
           /\ th[t].ph = "idle" =>
                 /\ th'[t].arg = <<RacedCounter>>
                 /\ incSince'[RacedCounter] <= MaxRaceItems
        \/ PopCountersStep(t)
        \/ GaugeStep(t) /\ (th'[t].op = "put_gauge" => th'[t].arg = <<"gauge_1", 1>>)
        \/ DbSessionEnter(t)
        \/ DbSessionExit(t)

SpecPrimitives == Init /\ [][NextPrimitives]_vars

\* Every thread calls inc_counter; the insert of a new counter row may fail.
NextInsertFails ==
    \E t \in Threads :
        \/ IncCounterStep(t)
        \/ IncCounter_createFails(t)
        \/ DbSessionEnter(t)
        \/ DbSessionExit(t)

SpecInsertFails == Init /\ [][NextInsertFails]_vars

\* One caller of set_table_full_hook and put on the impression queue; a hook
\* that is called pops or clears the queue in the caller's thread.
NextHookPops ==
    \/ ImpSetTableFullHook(1)
    \/ ImpPut(1) /\ impPut' <= MaxItems
    \/ ImpPut_merge(1)
    \/ ImpPut_count(1)
    \/ ImpPut_hook(1) /\ ~Callable(impHook)
    \/ ImpPut_hookPops(1)
    \/ ImpHookPop_read(1)
    \/ ImpHookPop_delete(1)
    \/ ImpPut_hookClears(1)
    \/ ImpHookClear_delete(1)
    \/ ImpPut_hookReturns(1)
    \/ DbSessionEnter(1)
    \/ DbSessionExit(1)

SpecHookPops == Init /\ [][NextHookPops]_vars /\ WF_vars(NextHookPops)

\* The threads call set_change_number and get_change_number of the split store.
NextSplitChangeNumber ==
    \E t \in Threads :
        \/ SplitSetChangeNumber(t)
        \/ SplitSetChangeNumber_read(t)
        \/ SplitSetChangeNumber_write(t)
        \/ SplitGetChangeNumber(t)
        \/ SplitGetChangeNumber_read(t)
        \/ DbSessionEnter(t)
        \/ DbSessionExit(t)

SpecSplitChangeNumber == Init /\ [][NextSplitChangeNumber]_vars

\* One caller of the split store: put, remove, set_change_number and the
\* reading methods, for the splits of SplitNames.
NextSplitStore ==
    \/ SplitPut(1) /\ NewId(splits, 1) <= MaxSplitId
    \/ SplitPut_lock(1)
    \/ SplitPut_get(1)
    \/ SplitPut_merge(1)
    \/ SplitPut_unlock(1)
    \/ SplitRemove(1)
    \/ SplitRemove_lock(1)
    \/ SplitRemove_get(1)
    \/ SplitRemove_delete(1)
    \/ SplitRemove_unlock(1)
    \/ SplitReadStep(1)
    \/ DbSessionEnter(1)
    \/ DbSessionExit(1)

SpecSplitStore == Init /\ [][NextSplitStore]_vars

\* One caller of the per-subject membership store.
NextMySegments ==
    \/ MySegmentsStep(1)
    \/ DbSessionEnter(1)
    \/ DbSessionExit(1)

SpecMySegments == Init /\ [][NextMySegments]_vars

\* Every thread calls put_gauge and pop_gauges.
NextGauges ==
    \E t \in Threads :
        \/ GaugeStep(t)
        \/ DbSessionEnter(t)
        \/ DbSessionExit(t)

SpecGauges == Init /\ [][NextGauges]_vars

\* One caller of inc_latency and pop_latencies.
NextLatency ==
    \/ IncLatencyStep(1)
    \/ PopLatenciesStep(1)
    \/ DbSessionEnter(1)
    \/ DbSessionExit(1)

SpecLatency == Init /\ [][NextLatency]_vars

\* Every thread calls inc_counter; nothing drains the counters.
NextCounterRace ==
    \E t \in Threads :
        \/ IncCounterStep(t)
        \/ DbSessionEnter(t)
        \/ DbSessionExit(t)

SpecCounterRace == Init /\ [][NextCounterRace]_vars

\* The threads call the split store.
\* The split the callers of the racing specifications name.
RacedSplit == "split_1"

\* A call that starts in this step names RacedSplit.
OneSplit(t) ==
    th[t].ph = "idle" =>
        /\ th'[t].op = "split_put" => th'[t].loc.name = RacedSplit
        /\ th'[t].op \in {"split_remove", "kill_locally"} => th'[t].arg[1] = RacedSplit

SplitThread(t) ==
    \/ SplitStep(t) /\ OneSplit(t)
    \/ DbSessionEnter(t)
    \/ DbSessionExit(t)

NextSplit == \E t \in Threads : SplitThread(t)

\* Every thread that can take a step eventually takes one.
SpecSplit == Init /\ [][NextSplit]_vars /\ \A t \in Threads : WF_vars(SplitThread(t))

\* The threads call wrapped methods, plain (update_or_insert, by
\* set_change_number) and nested; the session maker and the methods may raise.
NextSession ==
    \E t \in Threads :
        \/ SplitSetChangeNumber(t)
        \/ SplitSetChangeNumber_read(t)
        \/ SplitSetChangeNumber_write(t)
        \/ WrappedCallsWrapped(t)
        \/ WrappedCallsWrapped_call(t)
        \/ WrappedCallsWrapped_inner(t)
        \/ WrappedCallsWrapped_return(t)
        \/ DbSessionEnter(t)
        \/ DbSessionExit(t)
        \/ DbSessionMakerRaises(t)
        \/ DbSessionUnwind(t)
        \/ DbMethodRaises(t)

SpecSession == Init /\ [][NextSession]_vars

\* One caller on the split store.
NextSplitCaller ==
    \/ SplitStep(1) /\ OneSplit(1)
    \/ DbSessionEnter(1)
    \/ DbSessionExit(1)

SpecSplitCaller == Init /\ [][NextSplitCaller]_vars

\* A call that starts in this step names RacedSplit, and a put or a
\* kill_locally gives it the first traffic type and the first change number.
OneSplitInput(t) ==
    /\ OneSplit(t)
    /\ th[t].ph = "idle" =>
          /\ th'[t].op = "split_put" =>
                /\ th'[t].loc.traffic_type_name = "user"
                /\ th'[t].loc.change_number = 1
          /\ th'[t].op = "kill_locally" => th'[t].arg[3] = 1

\* The threads call put, remove and kill_locally of one split store, all of
\* them with the same split.
NextSplitWriters ==
    \E t \in Threads :
        \/ SplitPut(t) /\ OneSplitInput(t)
        \/ SplitPut_lock(t)
        \/ SplitPut_get(t)
        \/ SplitPut_merge(t)
        \/ SplitPut_unlock(t)
        \/ SplitRemove(t) /\ OneSplit(t)
        \/ SplitRemove_lock(t)
        \/ SplitRemove_get(t)
        \/ SplitRemove_delete(t)
        \/ SplitRemove_unlock(t)
        \/ SplitKillLocally(t) /\ OneSplitInput(t)
        \/ SplitKillLocally_lock(t)
        \/ SplitKillLocally_getcn(t)
        \/ SplitKillLocally_get(t)
        \/ SplitKillLocally_unlock(t)
        \/ DbSessionEnter(t)
        \/ DbSessionExit(t)

SpecSplitWriters == Init /\ [][NextSplitWriters]_vars

\* The threads put impressions and pop them, MaxRaceItems impressions in all
\* and no pop_many asking for more than that.
\* The wall clock is never set back.
NextQueueRace ==
    \E t \in Threads :
        \/ ImpPut(t) /\ impPut' <= MaxRaceItems
        \/ ImpPut_merge(t)
        \/ ImpPut_count(t)
        \/ ImpPut_hook(t)
        \/ ImpPopMany(t) /\ th'[t].arg[1] <= MaxRaceItems
        \/ ImpPop_read(t)
        \/ ImpPop_delete(t)
        \/ DbSessionEnter(t)
        \/ DbSessionExit(t)

SpecQueueRace == Init /\ [][NextQueueRace]_vars

\* One caller fills the two queues and the split store, calls the telemetry
\* store, clears the telemetry store and the queues, and pops.  It works on one
\* store at a time: it calls the telemetry store while each queue and the
\* split store hold a record, and the queues and the split store while the
\* telemetry tables are empty.  The counter, the latency, the gauge and the
\* split are always the same one, no counter or bucket is incremented twice
\* before it is popped or cleared, and the wall clock stands still.
QueuesFilled == impressions # {} /\ events # {} /\ splits # {}

TelemetryEmpty == counters = {} /\ gauges = {} /\ latencies = {}

NextClear ==
    \/ /\ IncCounterStep(1)
       /\ th[1].ph = "idle" =>
             /\ QueuesFilled
             /\ th'[1].arg = <<RacedCounter>>
             /\ incSince'[RacedCounter] <= 1
    \/ /\ IncLatencyStep(1)
       /\ th[1].ph = "idle" =>
             /\ QueuesFilled
             /\ th'[1].arg = <<"latency_1", 0>>
             /\ latSince'["latency_1"][0] <= 1
    \/ PutGauge(1) /\ QueuesFilled /\ th'[1].arg[1] = "gauge_1"
    \/ PutGauge_read(1)
    \/ PutGauge_write(1)
    \/ TelemetryClearStep(1) /\ (th[1].ph = "idle" => QueuesFilled)
    \/ PopCountersStep(1) /\ (th[1].ph = "idle" => QueuesFilled)
    \/ PopLatenciesStep(1) /\ (th[1].ph = "idle" => QueuesFilled)
    \/ PopGauges(1) /\ QueuesFilled
    \/ PopGauges_read(1)
    \/ PopGauges_delete(1)
    \/ ImpPut(1) /\ impPut' <= MaxRaceItems /\ TelemetryEmpty
    \/ ImpPut_merge(1) /\ clock' = clock
    \/ ImpPut_count(1)
    \/ ImpPut_hook(1)
    \/ ImpClear(1) /\ TelemetryEmpty
    \/ ImpClear_delete(1)
    \/ ImpPopMany(1) /\ th'[1].arg[1] = MaxPop /\ TelemetryEmpty
    \/ ImpPop_read(1)
    \/ ImpPop_delete(1)
    \/ EvtPut(1) /\ evtPut' <= EvtQueueSize /\ TelemetryEmpty
    \/ EvtPut_merge(1) /\ clock' = clock
    \/ EvtPut_count(1)
    \/ EvtPut_sum(1)
    \/ EvtPut_hook(1)
    \/ EvtClear(1) /\ TelemetryEmpty
    \/ EvtClear_delete(1)
    \/ EvtPopMany(1) /\ th'[1].arg[1] = MaxPop /\ TelemetryEmpty
    \/ EvtPop_read(1)
    \/ EvtPop_delete(1)
    \/ SplitPut(1) /\ OneSplitInput(1) /\ splits = {} /\ TelemetryEmpty
    \/ SplitPut_lock(1)
    \/ SplitPut_get(1)
    \/ SplitPut_merge(1)
    \/ SplitPut_unlock(1)
    \/ DbSessionEnter(1)
    \/ DbSessionExit(1)

SpecClear == Init /\ [][NextClear]_vars

\* The client opens a database that holds rows already (sql.url names it):
\* no table has a unique constraint on name, so any rows with distinct primary
\* keys can be there.
StoredSplitRows ==
    {[id |-> i, name |-> split.name, traffic_type_name |-> split.traffic_type_name,
      json_data |-> ToJson(split)] :
        i \in 1..MaxSegmentRows,
        split \in {x \in SplitInputs : x.traffic_type_name = "user" /\ x.change_number = 1}}

StoredSegmentRows ==
    {[id |-> i, name |-> name, change_number |-> 1] :
        i \in 1..MaxSegmentRows, name \in SegmentNames}

StoredKeyRows ==
    {[id |-> i, name |-> "key_1", model_id |-> m] :
        i \in 1..MaxSegmentRows, m \in 1..MaxSegmentRows}

DistinctIds(rows) == \A r1 \in rows : \A r2 \in rows : r1.id = r2.id => r1 = r2

InitLookup ==
    /\ splits \in {rows \in SUBSET StoredSplitRows : DistinctIds(rows)}
    /\ segments \in {rows \in SUBSET StoredSegmentRows : DistinctIds(rows)}
    /\ segmentKeys \in {rows \in SUBSET StoredKeyRows : DistinctIds(rows)}
    /\ impressions = {}
    /\ sessionLock = NoThread
    /\ session = [t \in Threads |-> FALSE]
    /\ openSessions = 0
    /\ impHook = "None"
    /\ clock = 0
    /\ th = [t \in Threads |-> Idle]
    /\ impPut = 0
    /\ impReturned = <<>>
    /\ events = {}
    /\ evtHook = "None"
    /\ evtPut = 0
    /\ evtReturned = <<>>
    /\ counters = {}
    /\ gauges = {}
    /\ latencies = {}
    /\ incSince = [n \in CounterNames |-> 0]
    /\ incOwed = [n \in CounterNames |-> 0]
    /\ latSince = [n \in LatencyNames |-> [b \in BucketInputs \cup Buckets |-> 0]]
    /\ cleared = {}
    /\ metadata = {}
    /\ mySegments = {}
    /\ splitLock = NoThread

\* One caller looks up splits, segments and segment keys.
NextLookup ==
    \/ SplitGet(1)
    \/ SplitGet_read(1)
    \/ SegmentGet(1)
    \/ SegmentGet_read(1)
    \/ SegmentContains(1)
    \/ SegmentContains_read(1)
    \/ DbSessionEnter(1)
    \/ DbSessionExit(1)

SpecLookup == InitLookup /\ [][NextLookup]_vars

\* One caller on the segment store.
NextSegment ==
    \/ SegmentStep(1)
    \/ DbSessionEnter(1)
    \/ DbSessionExit(1)

SpecSegment == Init /\ [][NextSegment]_vars

\* The threads put segments.
NextSegmentRace ==
    \E t \in Threads :
        \/ SegmentPut(t)
        \/ SegmentPut_get(t)
        \/ SegmentPut_merge(t)
        \/ DbSessionEnter(t)
        \/ DbSessionExit(t)

SpecSegmentRace == Init /\ [][NextSegmentRace]_vars

\* ------------------------------------------------------------------ claims
Payloads(table) == {r.json_data : r \in table}

\* C1: with one caller, every pop_many(k) returns the first min(k, remaining)
\* not yet popped impressions in insertion order and removes exactly those: the
\* impressions returned so far are impressions 1, 2, 3, ... in that order, a
\* finished pop_many(k) returned min(k, rows present before it) rows, and what
\* is left in the table are the impressions put and not yet returned.
C1_PopReturnsOldestFirst ==
    /\ \A i \in DOMAIN impReturned : impReturned[i] = i
    /\ (\A t \in Threads : th[t].ph = "idle") =>
          Payloads(impressions) = (Len(impReturned) + 1)..impPut
    /\ \A t \in Threads :
          th[t].op = "imp_pop_many" /\ th[t].ph = "idle" =>
             Len(th[t].out) = Min(th[t].arg[1], Len(th[t].out) + Cardinality(impressions))

\* C2: whatever timestamps the clock gave the rows, the rows pop reads are in
\* the order they were put (list order within one put, earlier put first), and
\* every row it leaves in the table was put after every row it reads.
C2_PopOrderIgnoresTimestamps ==
    \A t \in Threads :
        th[t].at = "imp_pop" /\ th[t].ph = "write" =>
            /\ \A i \in DOMAIN th[t].rows : \A j \in DOMAIN th[t].rows :
                  i < j => th[t].rows[i].json_data < th[t].rows[j].json_data
            /\ \A r \in impressions \ Range(th[t].rows) :
                  \A i \in DOMAIN th[t].rows : th[t].rows[i].json_data < r.json_data

\* The impressions handed to a put whose merge_and_commit has not run yet.
ImpInFlight ==
    UNION {Range(th[t].arg) : t \in {u \in Threads : th[u].at = "imp_merge"}}

\* C3: with the threads calling put and pop_many concurrently, no impression
\* is returned twice (by one pop_many or by two), no returned impression is
\* still in the table, and every impression handed to put is either returned,
\* in the table, or in a put that has not stored it yet.
C3_NoItemLostOrReturnedTwice ==
    /\ \A i \in DOMAIN impReturned : \A j \in DOMAIN impReturned :
          impReturned[i] = impReturned[j] => i = j
    /\ Range(impReturned) \cap Payloads(impressions) = {}
    /\ Range(impReturned) \cup Payloads(impressions) \cup ImpInFlight = 1..impPut
    /\ Cardinality(impressions) = Cardinality(Payloads(impressions))

\* Two pop_many calls overlap: one has read a row and holds the session lock,
\* the other waits for it.
C3_Witness ==
    \E t \in Threads : \E u \in Threads \ {t} :
        /\ th[t].at = "imp_pop" /\ th[t].ph = "write" /\ th[t].rows # <<>>
        /\ th[u].at = "imp_pop" /\ th[u].ph = "ready" /\ th[u].arg[1] > 0

\* C4: when the threads have called inc_counter concurrently for a name that
\* had no row, then once all calls have returned there is exactly one counter
\* row of that name and its value is the number of calls.
C4_ConcurrentIncExactlyOneRow ==
    (\A t \in Threads : th[t].ph = "idle") =>
        \A n \in CounterNames :
            IF incSince[n] = 0
            THEN ByName(counters, n) = {}
            ELSE \E r \in counters :
                    ByName(counters, n) = {r} /\ r.value = incSince[n]

\* All threads have raced for the same absent name and have returned.
C4_Witness ==
    /\ \A t \in Threads : th[t].ph = "idle" /\ th[t].op = "inc_counter"
    /\ \E t \in Threads : th[t].raced
    /\ \E n \in CounterNames : \E r \in counters :
          /\ \A t \in Threads : th[t].arg = <<n>>
          /\ ByName(counters, n) = {r}
          /\ r.value = incSince[n]
          /\ r.value >= NumThreads

\* C5: pop_counters after n calls of inc_counter(name) (for every name)
\* reads, and returns, the mapping of every incremented name to its number of
\* calls, and leaves no row, so that a pop_counters directly after it returns
\* the empty mapping.
C5_PopCountersReturnsCounts ==
    \A t \in Threads :
        /\ th[t].at = "ctr_pop" /\ th[t].ph = "write" =>
              RowsAsDict(th[t].rows) =
                  [n \in {m \in CounterNames : incSince[m] > 0} |-> incSince[n]]
        /\ th[t].op = "pop_counters" /\ th[t].at = "end" =>
              /\ th[t].out = RowsAsDict(th[t].rows)
              /\ counters = {}
              /\ \A n \in CounterNames : incSince[n] = 0

C5_Witness ==
    \E t \in Threads :
        /\ th[t].op = "pop_counters" /\ th[t].ph = "idle"
        /\ DOMAIN th[t].out = CounterNames
        /\ \E n \in CounterNames : th[t].out[n] = 2
        /\ \E n \in CounterNames : th[t].out[n] = 1

\* C6: whatever the callers of the stores do concurrently, each of the kinds
\* split, segment, counter, gauge and latency has at most one row per name.
C6_OneRowPerName ==
    /\ \A r1 \in splits : \A r2 \in splits : r1.name = r2.name => r1 = r2
    /\ \A r1 \in segments : \A r2 \in segments : r1.name = r2.name => r1 = r2
    /\ \A r1 \in counters : \A r2 \in counters : r1.name = r2.name => r1 = r2
    /\ \A r1 \in gauges : \A r2 \in gauges : r1.name = r2.name => r1 = r2
    /\ \A r1 \in latencies : \A r2 \in latencies : r1.name = r2.name => r1 = r2

\* C7: with a hook registered, a finished put on the impression queue has
\* invoked the hook exactly once if the row count after its insertion is
\* greater than the capacity, and not at all otherwise.
C7_ImpHookFiresOncePerOverflowingPut ==
    \A t \in Threads :
        th[t].op = "imp_put" /\ th[t].ph = "idle" /\ Callable(impHook) =>
            /\ th[t].ret = "True"
            /\ th[t].fired = IF Cardinality(impressions) > QueueSize THEN 1 ELSE 0

C7_Witness ==
    \E t \in Threads :
        /\ th[t].op = "imp_put" /\ th[t].ph = "idle" /\ Callable(impHook)
        /\ Cardinality(impressions) = QueueSize + 1
        /\ th[t].fired = 1

\* C8: with no hook registered, a finished put that leaves the impression
\* queue above its threshold has stored all its items and returned True.
C8_PutWithoutHookReturnsTrue ==
    \A t \in Threads :
        /\ th[t].op = "imp_put" /\ th[t].ph = "idle" /\ ~Callable(impHook)
        /\ Cardinality(impressions) > QueueSize
        => /\ Range(th[t].arg) \subseteq Payloads(impressions)
           /\ th[t].ret = "True"

\* C9: with a hook registered, a finished put on the event queue has invoked
\* the hook exactly once if the row count is greater than the capacity or the
\* sizes of all stored rows add up to 5 MiB or more, and not at all otherwise.
C9_EvtHookFiresOnCountOrBytes ==
    \A t \in Threads :
        th[t].op = "evt_put" /\ th[t].ph = "idle" /\ Callable(evtHook) =>
            /\ th[t].ret = "True"
            /\ th[t].fired =
                  IF \/ Cardinality(events) > EvtQueueSize
                     \/ SumSizes(events) >= 5 * 1024 * 1024
                  THEN 1 ELSE 0

\* A put that ends with exactly 5 MiB stored in no more rows than the capacity.
C9_Witness ==
    \E t \in Threads :
        /\ th[t].op = "evt_put" /\ th[t].ph = "idle" /\ Callable(evtHook)
        /\ Cardinality(events) <= EvtQueueSize
        /\ SumSizes(events) = 5 * 1024 * 1024
        /\ th[t].fired = 1
\* C10: a kill_locally call that found the stored change number not greater
\* than its own and found the split (it has applied the local kill to the
\* split it read and goes on to store it) returns.
C10_KillLocallyReturns ==
    \A t \in Threads :
        (th[t].op = "kill_locally" /\ th[t].nested)
            ~> (th[t].op = "kill_locally" /\ th[t].ph = "idle")

\* C11: a kill_locally call that finds the stored change number greater than
\* its own, or finds no split of the name, goes straight to the end of its with
\* block without an exception; no step of kill_locally outside the put it calls
\* changes a split, the stored change number or any other record; and the end
\* of the with block returns None with the writer lock free.
C11_KillLocallyNoOp ==
    [][\A t \in Threads :
          (th[t].op = "kill_locally" /\ th'[t].op = "kill_locally"
              /\ th[t].ph # "idle" /\ th'[t] # th[t] /\ ~th[t].nested) =>
             /\ UNCHANGED <<splits, metadata, segments, segmentKeys, impV, evtV, telV>>
             /\ (/\ th[t].at = "kill_getcn" /\ th[t].ph = "body"
                 /\ \E r \in metadata :
                       r.name = "change_number" /\ r.number > th[t].arg[3])
                   => th'[t].at = "kill_unlock" /\ th'[t].ret = "none"
             /\ (/\ th[t].at = "kill_get" /\ th[t].ph = "body"
                 /\ \A r \in splits : r.name # th[t].arg[1])
                   => th'[t].at = "kill_unlock" /\ th'[t].ret = "none"
             /\ (th[t].at = "kill_unlock" /\ th[t].ph = "ready")
                   => /\ th'[t].ph = "idle" /\ th'[t].ret = "None"
                      /\ splitLock' = NoThread]_vars

\* kill_locally has returned None although the split is stored: the stored
\* change number is greater than the one of the call.
C11_Witness ==
    \E t \in Threads :
        /\ th[t].op = "kill_locally" /\ th[t].ph = "idle" /\ th[t].ret = "None"
        /\ \E r \in splits : r.name = th[t].arg[1] /\ ~r.json_data.killed
        /\ \E r \in metadata : r.name = "change_number" /\ r.number > th[t].arg[3]
        /\ splitLock = NoThread

\* The thread is inside the with self._lock block of put, remove or
\* kill_locally.
InSplitSection(t) ==
    \/ th[t].at \in {"spl_put_get", "spl_put_merge", "spl_put_unlock",
                     "spl_rm_get", "spl_rm_delete", "spl_rm_unlock",
                     "kill_getcn", "kill_get", "kill_unlock"}
    \/ th[t].at = "spl_put_lock" /\ th[t].nested

\* C12: no two threads are inside the read-then-write sections of put, remove
\* and kill_locally at the same time, the thread inside is the one that holds
\* the writer lock, and no two split rows have the same name.
C12_SplitWritersExclusive ==
    /\ \A t \in Threads : \A u \in Threads \ {t} :
          ~(InSplitSection(t) /\ InSplitSection(u))
    /\ \A t \in Threads : InSplitSection(t) => splitLock = t
    /\ \A r1 \in splits : \A r2 \in splits : r1.name = r2.name => r1 = r2

\* One put has found no row of the name and is about to insert it while
\* another put of the same name waits for the writer lock.
C12_Witness ==
    \E t \in Threads : \E u \in Threads \ {t} :
        /\ th[t].at = "spl_put_merge" /\ th[t].rows = <<>>
        /\ th[u].op = "split_put" /\ th[u].at = "spl_put_lock"
        /\ th[u].loc.name = th[t].loc.name

\* C13: a thread outside every db_session call holds no session attribute and
\* not the session lock, whether its calls returned or raised, and every
\* session made is closed when its call is left: the open sessions are those
\* of the threads inside a call.
C13_OutermostCallCleansUp ==
    /\ \A t \in Threads :
          th[t].ph \in {"idle", "ready"} => ~session[t] /\ sessionLock # t
    /\ openSessions = Cardinality({t \in Threads : session[t]})
    /\ (\A t \in Threads : th[t].ph \in {"idle", "ready"}) => sessionLock = NoThread

\* A wrapped method has raised and its thread is back outside db_session,
\* while another thread's call returned normally.
C13_Witness ==
    \E t \in Threads : \E u \in Threads \ {t} :
        /\ th[t].ph = "idle" /\ th[t].ret = "OperationalError"
        /\ th[u].ph = "idle" /\ th[u].ret = "None"
        /\ openSessions = 0

\* C14: a wrapped call made inside a wrapped call can always proceed (it does
\* not wait for the session lock), creates no session, and leaves the session
\* open on return; a thread that has a session holds the lock, so at most one
\* session is open and it belongs to the thread that made it.
C14_NestedCallReusesSession ==
    /\ \A t \in Threads :
          /\ th[t].ph = "nready" => ENABLED DbSessionEnter(t)
          /\ th[t].ph \in {"nready", "nbody", "nexit"} =>
                ~th[t].inner /\ th[t].outer /\ session[t] /\ openSessions = 1
          /\ (th[t].at = "wrapped" /\ th[t].ph = "body" /\ th[t].fired = 1) =>
                session[t] /\ openSessions = 1
          /\ session[t] => sessionLock = t
    /\ openSessions <= 1

\* The inner call has returned into the outer method's body.
C14_Witness ==
    \E t \in Threads :
        /\ th[t].at = "wrapped" /\ th[t].ph = "body" /\ th[t].fired = 1
        /\ session[t] /\ sessionLock = t

\* The thread executes the body of a primitive.
InPrimitive(t) == th[t].ph \in {"body", "write", "incr"}

\* C15 as claimed: a thread that executes a primitive does not make another
\* thread's primitive wait: the other thread can enter its own.
C15_PrimitivesRunConcurrently ==
    \A t \in Threads : \A u \in Threads \ {t} :
        (InPrimitive(t) /\ th[u].ph = "ready" /\ th[u].at \in DbCallSites)
            => ENABLED DbSessionEnter(u)

\* C15 as amended: at most one thread executes the body of a primitive, and it
\* holds the session lock until its session is closed.
C15_PrimitivesSerialized ==
    /\ Cardinality({t \in Threads : InPrimitive(t) \/ th[t].ph = "exit"}) <= 1
    /\ \A t \in Threads : (InPrimitive(t) \/ th[t].ph = "exit") => sessionLock = t

\* One thread is between the read and the write of increment_or_create while
\* another waits to enter its primitive.
C15_Witness ==
    \E t \in Threads : \E u \in Threads \ {t} :
        /\ th[t].at = "ctr_inc" /\ th[t].ph \in {"write", "incr"}
        /\ th[u].at = "ctr_inc" /\ th[u].ph = "ready"

\* C16: when the session maker raises, the wrapped method is not run and no
\* record changes; the exception leaves the with statement, which releases the
\* lock, and the thread is outside db_session with no session attribute and the
\* exception as the outcome of its call.
C16_MakerFailureReleasesLock ==
    [][\A t \in Threads :
          /\ (th[t].ph = "ready" /\ th'[t].ph = "failed") =>
                /\ ~session'[t] /\ openSessions' = openSessions
                /\ UNCHANGED <<impV, evtV, telV, cfgV>>
          /\ (th[t].ph = "failed" /\ th'[t] # th[t]) =>
                /\ th'[t].ph = "idle" /\ th'[t].ret = "SessionMakerError"
                /\ sessionLock' = NoThread
                /\ ~session'[t] /\ openSessions' = 0
                /\ UNCHANGED <<impV, evtV, telV, cfgV>>]_vars

\* After one thread's session maker failed, another thread has taken the lock
\* and runs a wrapped method on its own session.
C16_Witness ==
    \E t \in Threads : \E u \in Threads \ {t} :
        /\ th[t].ph = "idle" /\ th[t].ret = "SessionMakerError" /\ ~session[t]
        /\ th[u].ph = "body" /\ session[u] /\ sessionLock = u

\* The buckets counted since the last drain, for the names that were counted.
CountedLatencies ==
    [n \in {m \in LatencyNames : \E b \in 0..21 : latSince[m][b] > 0} |->
        [b \in 0..21 |-> latSince[n][b]]]

\* C17: between calls, every name that received a bucket in 0..21 since the
\* last drain has one row whose 22 buckets hold the number of calls per bucket
\* and no other name has a row (calls with a bucket outside 0..21 return None
\* and store nothing); pop_latencies reads and returns exactly these arrays
\* and leaves no row.
C17_LatencyBucketsCountCalls ==
    /\ (\A t \in Threads : th[t].ph = "idle") =>
          /\ \A n \in DOMAIN CountedLatencies : \E r \in latencies :
                /\ ByName(latencies, n) = {r}
                /\ r.buckets = CountedLatencies[n]
                /\ SumBuckets(r.buckets, 0..21) = SumBuckets(latSince[n], 0..21)
          /\ \A r \in latencies : r.name \in DOMAIN CountedLatencies
    /\ \A t \in Threads :
        /\ (th[t].ph = "idle" /\ th[t].op = "inc_latency") => th[t].ret = "None"
        /\ (th[t].at = "lat_pop" /\ th[t].ph = "write") =>
              RowsAsBuckets(th[t].rows) = CountedLatencies
        /\ (th[t].op = "pop_latencies" /\ th[t].at = "end") =>
              /\ th[t].out = RowsAsBuckets(th[t].rows)
              /\ latencies = {}

\* pop_latencies has read the rows it returns: for one name, two calls in
\* bucket 0 and one in bucket 21, made among calls with buckets -1 and 22.
C17_Witness ==
    \E t \in Threads : \E n \in LatencyNames :
        /\ th[t].at = "lat_pop" /\ th[t].ph = "write"
        /\ DOMAIN RowsAsBuckets(th[t].rows) = {n}
        /\ RowsAsBuckets(th[t].rows)[n][0] = 2
        /\ RowsAsBuckets(th[t].rows)[n][21] = 1
        /\ latSince[n][-1] > 0 /\ latSince[n][22] > 0

\* C18: with inc_counter and pop_counters calls of several threads
\* interleaved, the increments that have completed and were not yet returned
\* by a pop_counters are, for every name and in every state, exactly the
\* value stored for the name (0 when there is no row): every completed
\* increment is in the value one pop_counters returned or in the stored one,
\* never in both and never in neither.  The rows a pop_counters has read are
\* still the stored rows when it deletes them, and are gone when it returns.
C18_PopIsSnapshotThenClear ==
    /\ \A n \in CounterNames :
          /\ incOwed[n] = SumValues(ByName(counters, n))
          /\ Cardinality(ByName(counters, n)) <= 1
    /\ \A t \in Threads :
          /\ (th[t].at = "ctr_pop" /\ th[t].ph = "write") =>
                Range(th[t].rows) = counters
          /\ (th[t].op = "pop_counters" /\ th[t].at = "end" /\ th[t].ph = "exit") =>
                /\ counters = {}
                /\ th[t].out = RowsAsDict(th[t].rows)

\* A pop_counters has drained two increments of a name and has not yet left
\* its session, while another thread's inc_counter of the same name, called
\* meanwhile, waits for the session lock.
C18_Witness ==
    \E t \in Threads : \E u \in Threads \ {t} : \E n \in CounterNames :
        /\ th[t].op = "pop_counters" /\ th[t].at = "end" /\ th[t].ph = "exit"
        /\ Drained(th[t].out, n) = 2
        /\ th[u].op = "inc_counter" /\ th[u].ph = "ready" /\ th[u].arg = <<n>>
        /\ incOwed[n] = 0

\* What get(name) would return in this state: the segments stored under the
\* name (none when get returns None).
StoredSegment(name) == {SegmentOf(r) : r \in ByName(segments, name)}

\* C19: the merge of update(name, to_add, to_remove, change_number) leaves
\* exactly one segment of the name, whose members are the members just before
\* (none when the segment was absent) without to_remove, and to_add, and whose
\* change number is change_number when one was given and the one before
\* otherwise (none when the segment was absent); no other step of the call
\* changes what is stored, and get returns what is stored.
C19_UpdateMembership ==
    [][\A t \in Threads :
          /\ (th[t].op = "segment_update" /\ th[t].ph # "idle") =>
                IF th[t].at = "seg_upd_merge" /\ th[t].ph = "body"
                THEN LET name == th[t].arg[1]
                         before == StoredSegment(name)
                         keys == UNION {s.keys : s \in before}
                         number == IF before = {} THEN NoNumber
                                   ELSE (CHOOSE s \in before : TRUE).change_number
                     IN /\ Cardinality(before) <= 1
                        /\ StoredSegment(name)' =
                              {[name |-> name,
                                keys |-> (keys \ th[t].arg[3]) \cup th[t].arg[2],
                                change_number |-> IF th[t].arg[4] # NoNumber
                                                  THEN th[t].arg[4] ELSE number]}
                        /\ th'[t].ret = "None"
                ELSE UNCHANGED <<segments, segmentKeys>>
          /\ (th[t].at = "seg_get" /\ th[t].ph = "body") =>
                Range(th'[t].out) = StoredSegment(th[t].arg[1])
     ]_vars

\* update has returned after adding a member to a stored segment that had
\* another member, which it removed, without a change number: the segment has
\* the new member only and the change number it had.
C19_Witness ==
    \E t \in Threads :
        /\ th[t].op = "segment_update" /\ th[t].ph = "idle" /\ th[t].ret = "None"
        /\ th[t].arg[2] = {"key_2"} /\ th[t].arg[3] = {"key_1"}
        /\ th[t].arg[4] = NoNumber
        /\ \E k \in segmentKeys : k.name = "key_1" /\ k.model_id = NoNumber
        /\ StoredSegment(th[t].arg[1]) =
              {[name |-> th[t].arg[1], keys |-> {"key_2"}, change_number |-> 2]}

\* C20: whenever put(segment) has returned, whatever was stored before, what
\* get(segment.name) returns is a segment of the same name, with exactly the
\* keys and with the change number of the segment put.
C20_GetAfterPutReturnsPut ==
    \A t \in Threads :
        (th[t].op = "segment_put" /\ th[t].ph = "idle" /\ th[t].ret = "None") =>
            StoredSegment(th[t].arg[1].name) = {th[t].arg[1]}

\* C21: whenever segment_contains(name, key) has returned, it has returned
\* True when key is a member of the stored segment name and False when it is
\* not (or when there is no such segment): it has not raised.
C21_ContainsTellsMembership ==
    \A t \in Threads :
        (th[t].op = "segment_contains" /\ th[t].ph = "idle") =>
            th[t].ret = IF th[t].arg[2] \in UNION {s.keys : s \in StoredSegment(th[t].arg[1])}
                        THEN "True" ELSE "False"

\* C22: a step of set_change_number(name, n) changes what is stored only when
\* it merges the record of the stored segment, and then the segment keeps its
\* name and members and has change number n; when no segment of the name is
\* stored the call returns after its lookup and nothing is stored for the
\* name.  get_change_number(name) returns the stored change number, or None
\* when nothing is stored for the name.
C22_SetChangeNumberFrame ==
    [][\A t \in Threads :
          /\ (th[t].op = "segment_set_change_number" /\ th[t].ph # "idle") =>
                IF th[t].at = "seg_setcn_merge" /\ th[t].ph = "body"
                THEN \E s \in StoredSegment(th[t].arg[1]) :
                        /\ StoredSegment(th[t].arg[1]) = {s}
                        /\ StoredSegment(th[t].arg[1])' =
                              {[s EXCEPT !.change_number = th[t].arg[2]]}
                        /\ \A k \in segmentKeys' :
                              \E j \in segmentKeys : j.id = k.id /\ j.name = k.name
                        /\ Cardinality(segmentKeys') = Cardinality(segmentKeys)
                ELSE /\ UNCHANGED <<segments, segmentKeys>>
                     /\ (th[t].at = "seg_setcn_get" /\ th[t].ph = "body"
                           /\ StoredSegment(th[t].arg[1]) = {}) =>
                           th'[t].at = "end" /\ th'[t].ret = "None"
          /\ (th[t].at = "seg_getcn" /\ th[t].ph = "body") =>
                /\ Range(th'[t].out) = {s.change_number : s \in StoredSegment(th[t].arg[1])}
                /\ th'[t].ret = IF StoredSegment(th[t].arg[1]) = {} THEN "None" ELSE "int"
                /\ UNCHANGED <<segments, segmentKeys>>
     ]_vars

\* set_change_number has returned for a stored segment with a member, which
\* now has the number of the call and still has the member.
C22_Witness ==
    \E t \in Threads : \E s \in StoredSegment("segment_1") :
        /\ th[t].op = "segment_set_change_number" /\ th[t].ph = "idle"
        /\ th[t].arg = <<"segment_1", 2>>
        /\ s.change_number = 2 /\ s.keys = {"key_1"}
        /\ \E r \in segments : r.change_number = 2

\* C23: whenever put(subject_key, segment_names) has returned, the rows of
\* the subject name exactly the segments of the list; whenever
\* get(subject_key) has returned, it has returned the segment names stored for
\* the subject; whenever segment_contains(s, subject_key) has returned, it
\* has returned True exactly when s is stored for the subject.
C23_MySegmentsPutThenGet ==
    \A t \in Threads :
        th[t].ph = "idle" =>
            /\ th[t].op = "my_segments_put" =>
                  {r.segment_name : r \in ByTrafficKey(mySegments, th[t].arg[1])}
                      = Range(th[t].arg[2])
            /\ th[t].op = "my_segments_get" =>
                  /\ th[t].ret = "list"
                  /\ Range(th[t].out) =
                        {r.segment_name : r \in ByTrafficKey(mySegments, th[t].arg[1])}
            /\ th[t].op = "my_segments_contains" =>
                  (th[t].ret = "True" <=>
                      th[t].arg[1] \in
                         {r.segment_name : r \in ByTrafficKey(mySegments, th[t].arg[2])})

\* The splits get would build from the stored rows.
StoredSplits == {FromRaw(r.json_data) : r \in splits}

\* C24: whenever is_valid_traffic_type(T) has returned, after any puts and
\* removes, it has returned True when a stored split has traffic type T and
\* False when none has; the traffic type column of every row is the traffic
\* type of the split stored in the row.
C24_ValidTrafficTypeIffStored ==
    /\ \A t \in Threads :
          (th[t].op = "is_valid_traffic_type" /\ th[t].ph = "idle") =>
              th[t].ret = IF \E sp \in StoredSplits : sp.traffic_type_name = th[t].arg[1]
                          THEN "True" ELSE "False"
    /\ \A r \in splits :
          splitLock = NoThread => r.traffic_type_name = FromRaw(r.json_data).traffic_type_name

\* is_valid_traffic_type('user') has returned False while both splits are
\* stored, with traffic type 'account'.
C24_Witness ==
    \E t \in Threads :
        /\ th[t].op = "is_valid_traffic_type" /\ th[t].ph = "idle"
        /\ th[t].arg = <<"user">> /\ th[t].ret = "False"
        /\ {sp.name : sp \in StoredSplits} = SplitNames
        /\ \A sp \in StoredSplits : sp.traffic_type_name = "account"

\* C25: remove(name) decides what it returns when it looks the split up:
\* False when no split of the name is stored, and then nothing is deleted;
\* otherwise its delete step leaves no row of the name and every row of
\* another name as it was, and the call returns True.  No other step of the
\* call changes the stored splits, so when remove has returned no split of the
\* name is stored; get returns the stored split of a name or None, and
\* get_split_names the names of the stored rows.
C25_RemoveReturnsWhetherStored ==
    [][\A t \in Threads :
          /\ (th[t].op = "split_remove" /\ th[t].ph # "idle") =>
                /\ (th[t].at = "spl_rm_get" /\ th[t].ph = "body") =>
                      IF ByName(splits, th[t].arg[1]) = {}
                      THEN th'[t].ret = "False" /\ th'[t].at = "spl_rm_unlock"
                      ELSE th'[t].at = "spl_rm_delete"
                /\ IF th[t].at = "spl_rm_delete" /\ th[t].ph = "body"
                   THEN /\ ByName(splits, th[t].arg[1]) # {}
                        /\ ByName(splits', th[t].arg[1]) = {}
                        /\ \A n \in SplitNames \ {th[t].arg[1]} :
                              ByName(splits', n) = ByName(splits, n)
                        /\ th'[t].ret = "True"
                   ELSE UNCHANGED splits
                /\ th'[t].ph = "idle" =>
                      /\ th'[t].ret = th[t].ret
                      /\ th[t].ret \in {"True", "False"}
                      /\ ByName(splits', th[t].arg[1]) = {}
          /\ (th[t].at = "spl_get" /\ th[t].ph = "body") =>
                Range(th'[t].out) =
                    {FromRaw(r.json_data) : r \in ByName(splits, th[t].arg[1])}
          /\ (th[t].at = "spl_names" /\ th[t].ph = "body") =>
                Range(th'[t].out) = {r.name : r \in splits}
     ]_vars

\* remove has returned True and the other split is still stored.
C25_Witness ==
    \E t \in Threads :
        /\ th[t].op = "split_remove" /\ th[t].ph = "idle" /\ th[t].ret = "True"
        /\ th[t].arg = <<"split_1">>
        /\ {r.name : r \in splits} = {"split_2"}

\* C26: the write of a set_change_number(n) call leaves exactly one
\* 'change_number' row, holding n, and the call returns None; no other step
\* changes the row, so the row holds the argument of the most recent call.  A
\* get_change_number returns the number of the row, and 0 while there is no
\* row, which is so until the first set_change_number has written.
C26_ChangeNumberIsLastSet ==
    [][/\ Cardinality(ByName(metadata, "change_number")) <= 1
       /\ \A t \in Threads :
          /\ th'[t] # th[t] =>
                IF th[t].at = "spl_setcn" /\ th[t].ph = "write"
                THEN /\ metadata' = {[name |-> "change_number", number |-> th[t].arg[1]]}
                     /\ StoredChangeNumber' = th[t].arg[1]
                     /\ th'[t].ret = "None"
                ELSE UNCHANGED metadata
          /\ (th[t].at = "spl_getcn" /\ th[t].ph = "body" /\ th'[t] # th[t]) =>
                th'[t].out = <<IF metadata = {} THEN 0
                               ELSE (CHOOSE r \in metadata : TRUE).number>>
     ]_vars

\* One thread's set_change_number(2) has returned and the store holds 2;
\* another thread's get_change_number returned the 1 that was set before.
C26_Witness ==
    \E t \in Threads : \E u \in Threads \ {t} :
        /\ th[t].op = "split_set_change_number" /\ th[t].ph = "idle"
        /\ th[t].arg = <<2>> /\ th[t].ret = "None"
        /\ th[u].op = "split_get_change_number" /\ th[u].ph = "idle"
        /\ th[u].out = <<1>>
        /\ metadata = {[name |-> "change_number", number |-> 2]}

\* C27: whenever fetch_many(names) has returned, the keys of the mapping it
\* returned are exactly the requested names, a name with a stored split maps
\* to that split and a name without one maps to None.
C27_FetchManyKeysAreRequested ==
    \A t \in Threads :
        (th[t].op = "fetch_many" /\ th[t].ph = "idle") =>
            /\ th[t].ret = "dict"
            /\ DOMAIN th[t].out = Range(th[t].arg[1])
            /\ \A n \in Range(th[t].arg[1]) :
                  Range(th[t].out[n]) = {sp \in StoredSplits : sp.name = n}

\* fetch_many(['split_1', 'split_2']) has returned the stored split_1 and None
\* for split_2, which is not stored.
C27_Witness ==
    \E t \in Threads :
        /\ th[t].op = "fetch_many" /\ th[t].ph = "idle"
        /\ th[t].arg = << <<"split_1", "split_2">> >>
        /\ Len(th[t].out["split_1"]) = 1 /\ th[t].out["split_2"] = <<>>
        /\ {r.name : r \in splits} = {"split_1"}

\* C28: a set_table_full_hook(h) step, on either queue, registers h when h is
\* one of the callables and otherwise leaves the hook as it was, registered or
\* unset, and raises nothing; no other step of the caller changes a hook; and
\* a put that gets to call the hook calls the callable registered last.
C28_NonCallableHookIgnored ==
    [][\A t \in Threads :
          th'[t] # th[t] =>
             /\ IF th'[t].op = "imp_set_hook"
                THEN /\ impHook' = IF th'[t].arg[1] \in {"hook1", "hook2"}
                                   THEN th'[t].arg[1] ELSE impHook
                     /\ th'[t].ph = "idle" /\ th'[t].ret = "none"
                ELSE impHook' = impHook
             /\ IF th'[t].op = "evt_set_hook"
                THEN /\ evtHook' = IF th'[t].arg[1] \in {"hook1", "hook2"}
                                   THEN th'[t].arg[1] ELSE evtHook
                     /\ th'[t].ph = "idle" /\ th'[t].ret = "none"
                ELSE evtHook' = evtHook
             /\ (th[t].at = "imp_hook" /\ th[t].ph = "ready" /\ impHook \in {"hook1", "hook2"}) =>
                   th'[t].fired = 1 /\ th'[t].out[1] = impHook
             /\ (th[t].at = "evt_hook" /\ th[t].ph = "ready" /\ evtHook \in {"hook1", "hook2"}) =>
                   th'[t].fired = 1 /\ th'[t].out[1] = evtHook
     ]_vars

\* set_table_full_hook('not_callable') has returned on the event queue, whose
\* hook is still hook2, after the impression queue, with hook1 registered,
\* overflowed.
C28_Witness ==
    \E t \in Threads :
        /\ th[t].op = "evt_set_hook" /\ th[t].ph = "idle"
        /\ th[t].arg = <<"not_callable">>
        /\ evtHook = "hook2" /\ impHook = "hook1"
        /\ Cardinality(impressions) > QueueSize

\* C29: whenever a put has ended with its hook raising, on either queue, the
\* put has not returned True: the caller has the hook's exception, and every
\* item of the put is a row of the queue.
C29_HookErrorPropagates ==
    \A t \in Threads :
        (th[t].ph = "idle" /\ th[t].op \in {"imp_put", "evt_put"}
           /\ Len(th[t].out) = 2 /\ th[t].out[2] = "raised") =>
            /\ th[t].ret = "HookError"
            /\ th[t].fired = 1
            /\ th[t].op = "imp_put" =>
                  /\ Range(th[t].arg) \subseteq {r.json_data : r \in impressions}
                  /\ Cardinality(impressions) > QueueSize
            /\ th[t].op = "evt_put" =>
                  /\ {e.event : e \in Range(th[t].arg)} \subseteq {r.json_data : r \in events}
                  /\ \/ Cardinality(events) > EvtQueueSize
                     \/ SumSizes(events) >= MAX_SIZE_BYTES

\* An event put has ended with the hook's exception and its two events are
\* stored.
C29_Witness ==
    \E t \in Threads :
        /\ th[t].ph = "idle" /\ th[t].op = "evt_put"
        /\ th[t].ret = "HookError" /\ th[t].out = <<"hook1", "raised">>
        /\ Len(th[t].arg) = 2
        /\ {e.event : e \in Range(th[t].arg)} \subseteq {r.json_data : r \in events}
        /\ impressions # {}

\* C30: the write of put_gauge(name, value) leaves exactly one row of the
\* name, holding value, and the rows of other names as they were; pop_gauges
\* reads every stored row, removes exactly the rows it read and returns one
\* entry per name with the value of the name's row; no other step changes the
\* gauge rows.  So each name has at most one row, it holds the value of the
\* last put_gauge of the name since the last pop_gauges, and a pop_gauges that
\* follows a pop_gauges returns the empty mapping.
C30_GaugeLastWriteWins ==
    [][/\ \A n \in GaugeNames : Cardinality(ByName(gauges, n)) <= 1
       /\ \A t \in Threads :
             th'[t] # th[t] =>
                IF th[t].at = "gauge_put" /\ th[t].ph = "write"
                THEN /\ \E r \in gauges' :
                           /\ ByName(gauges', th[t].arg[1]) = {r}
                           /\ r.value = th[t].arg[2]
                     /\ \A n \in GaugeNames \ {th[t].arg[1]} :
                           ByName(gauges', n) = ByName(gauges, n)
                     /\ th'[t].ret = "None"
                ELSE IF th[t].at = "gauge_pop" /\ th[t].ph = "write"
                THEN /\ Range(th[t].rows) = gauges
                     /\ gauges' = {}
                     /\ th'[t].out = [n \in {r.name : r \in gauges} |->
                                         (CHOOSE r \in gauges : r.name = n).value]
                ELSE UNCHANGED gauges
     ]_vars

\* pop_gauges has returned one entry for each of the two names and emptied
\* the table; the 2 of gauge_1 is the value of the other thread's put_gauge.
C30_Witness ==
    \E t \in Threads : \E u \in Threads \ {t} :
        /\ th[t].op = "pop_gauges" /\ th[t].ph = "idle"
        /\ DOMAIN th[t].out = GaugeNames
        /\ th[t].out["gauge_1"] = 2 /\ th[t].out["gauge_2"] = 1
        /\ th[u].op = "put_gauge" /\ th[u].ph = "idle" /\ th[u].arg = <<"gauge_1", 2>>
        /\ gauges = {}

\* C31: a pop_counters, pop_gauges or pop_latencies that follows clear() of the
\* telemetry store with no other call in between returns the empty mapping, and
\* a pop_many that follows clear() of a queue returns the empty list; no step of
\* the telemetry clear() changes a split, segment, impression or event record.
C31_ClearEmptiesOnlyItsStore ==
    [][/\ "telemetry" \in cleared /\ th[1].ph = "write" /\ th'[1].ph = "exit"
          /\ th[1].op \in {"pop_counters", "pop_gauges", "pop_latencies"}
          => DOMAIN th'[1].out = {}
       /\ "impressions" \in cleared /\ th[1].op = "imp_pop_many"
          /\ th[1].ph = "write" /\ th'[1].ph = "exit"
          => th'[1].out = <<>> /\ th'[1].ret = "rows"
       /\ "events" \in cleared /\ th[1].op = "evt_pop_many"
          /\ th[1].ph = "write" /\ th'[1].ph = "exit"
          => th'[1].out = <<>> /\ th'[1].ret = "rows"
       /\ th[1].op = "tel_clear" \/ th'[1].op = "tel_clear"
          => UNCHANGED <<splits, metadata, segments, segmentKeys, mySegments,
                         impressions, events>>
       /\ th'[1].op = "tel_clear" /\ th'[1].ph = "idle"
          => counters' = {} /\ gauges' = {} /\ latencies' = {}]_vars

\* After clear() of the telemetry store the three pops have run, the last one
\* pop_latencies, and it returned the empty mapping; the impression, the
\* event and the split stored before the clear() are still there.
C31_Witness ==
    /\ "telemetry" \in cleared
    /\ th[1].op = "pop_latencies" /\ th[1].ph = "idle" /\ DOMAIN th[1].out = {}
    /\ impressions # {} /\ events # {} /\ splits # {}

\* C32: a lookup with get_one_or_none returns the absent value when no row
\* matches (get returns None, segment_contains False), the row when exactly one
\* matches, and when more than one matches MultipleResultsFound leaves
\* SqlSplitStorage.get, SqlSegmentStorage.get and segment_contains uncaught,
\* with the session closed and the session lock released.
C32_LookupNoneRowOrError ==
    th[1].ph = "idle" /\ th[1].op \in {"split_get", "segment_get", "segment_contains"} =>
        LET found == IF th[1].op = "split_get" THEN ByName(splits, th[1].arg[1])
                     ELSE IF th[1].op = "segment_get" THEN ByName(segments, th[1].arg[1])
                     ELSE ContainsRows(th[1].arg[1], th[1].arg[2])
        IN /\ found = {} =>
                 /\ th[1].ret = IF th[1].op = "segment_contains" THEN "False" ELSE "None"
                 /\ th[1].out = <<>>
           /\ Cardinality(found) = 1 =>
                 \E r \in found :
                    /\ th[1].op = "split_get" =>
                          th[1].ret = "Split" /\ th[1].out = <<FromRaw(r.json_data)>>
                    /\ th[1].op = "segment_get" =>
                          th[1].ret = "Segment" /\ th[1].out = <<SegmentOf(r)>>
                    /\ th[1].op = "segment_contains" => th[1].ret = "True"
           /\ Cardinality(found) > 1 => th[1].ret = "MultipleResultsFound"
           /\ ~session[1] /\ sessionLock = NoThread /\ openSessions = 0

\* SqlSplitStorage.get has raised MultipleResultsFound for a name that two
\* split rows carry.
C32_Witness ==
    /\ th[1].op = "split_get" /\ th[1].ph = "idle"
    /\ th[1].ret = "MultipleResultsFound"
    /\ Cardinality(ByName(splits, th[1].arg[1])) = 2

\* The thread has made the read of pop, increment_or_create or
\* update_or_insert and not yet its last commit.
BetweenReadAndCommit(t) ==
    /\ th[t].at \in {"ctr_inc", "ctr_pop", "gauge_put", "gauge_pop"}
    /\ th[t].ph \in {"write", "incr"}

\* C33: while a thread is between the read and the commit of pop,
\* increment_or_create or update_or_insert, no other thread is inside a
\* primitive or enters one, and no step of another thread changes a table; a
\* thread that starts the body of a primitive finds no counter row at the
\* value 0 it is created with, so it sees no call's changes in part.
C33_ReadWriteCommitIsOneUnit ==
    [][\A t \in Threads :
          /\ BetweenReadAndCommit(t) =>
                \A u \in Threads \ {t} :
                    th'[u] # th[u] =>
                        /\ ~InPrimitive(u) /\ ~(InPrimitive(u))'
                        /\ UNCHANGED <<counters, gauges, latencies>>
          /\ (~InPrimitive(t) /\ (InPrimitive(t))') =>
                /\ \A r \in counters : r.value > 0
                /\ \A u \in Threads \ {t} : ~BetweenReadAndCommit(u)]_vars

\* An increment_or_create has inserted the row of a counter at the value 0 and
\* not yet incremented it, while a pop_counters and, when there is a third
\* thread, every other call wait for the session lock.
C33_Witness ==
    \E t \in Threads : \E u \in Threads \ {t} :
        /\ th[t].at = "ctr_inc" /\ th[t].ph = "incr"
        /\ \E r \in counters : r.value = 0 /\ r.id = th[t].rows[1].id
        /\ th[u].at = "ctr_pop" /\ th[u].ph = "ready"
        /\ gauges # {}

\* C34: an inc_counter whose lookup found no row and whose insert failed
\* returns normally, and the table then holds exactly one row of the name.
C34_FailedInsertRecovered ==
    \A t \in Threads :
        (th[t].op = "inc_counter" /\ th[t].ph = "idle" /\ th[t].loc = <<"caught">>) =>
            /\ th[t].ret = "None"
            /\ Cardinality(ByName(counters, th[t].arg[1])) = 1

\* The bytes of the events a put hands over, added up.
RECURSIVE SumArgSizes(_)
SumArgSizes(items) ==
    IF items = <<>> THEN 0 ELSE Head(items).size + SumArgSizes(Tail(items))

\* C35: with no pop_many or clear, a finished put that found the queue already
\* over its threshold (the rows without its own are more than the capacity,
\* or for events weigh 5 MiB or more) has invoked the registered hook once,
\* whether its list was empty or not.
C35_HookFiresWhileAboveCapacity ==
    /\ (/\ th[1].op = "imp_put" /\ th[1].ph = "idle" /\ Callable(impHook)
        /\ Cardinality(impressions) - Len(th[1].arg) > QueueSize)
          => th[1].fired = 1 /\ th[1].out[1] = impHook
    /\ (/\ th[1].op = "evt_put" /\ th[1].ph = "idle" /\ Callable(evtHook)
        /\ \/ Cardinality(events) - Len(th[1].arg) > EvtQueueSize
           \/ SumSizes(events) - SumArgSizes(th[1].arg) >= MAX_SIZE_BYTES)
          => th[1].fired = 1 /\ th[1].out[1] = evtHook

\* A put of the empty list on an impression queue that was over its capacity
\* has invoked the hook, and so has one on the event queue.
C35_Witness ==
    /\ th[1].op = "imp_put" /\ th[1].ph = "idle" /\ th[1].arg = <<>>
    /\ Callable(impHook) /\ th[1].fired = 1
    /\ Cardinality(impressions) > QueueSize
    /\ SumSizes(events) >= MAX_SIZE_BYTES

\* C36: whenever put is about to invoke the overflow hook, its thread has no
\* session and does not hold the session lock, and no session is open; and a
\* put that has reached its hook, a hook that calls pop_many or clear of the
\* same queue included, always returns.
C36_HookRunsOutsideSession ==
    /\ []((th[1].at = "imp_hook" /\ th[1].ph = "ready") =>
             (~session[1] /\ sessionLock # 1 /\ openSessions = 0))
    /\ (th[1].at \in {"imp_hook", "hook_pop", "hook_clear"}) ~> (th[1].ph = "idle")

\* A put has returned True after its hook popped the impression that made the
\* queue overflow.
C36_Witness ==
    /\ th[1].op = "imp_put" /\ th[1].ph = "idle" /\ th[1].ret = "True"
    /\ th[1].fired = 1 /\ th[1].loc # <<>> /\ th[1].out # <<>>
    /\ Range(th[1].out) \cap Range(th[1].arg) # {}
    /\ ~session[1] /\ sessionLock = NoThread

\* The threads put and look up the segments of one subject.
NextMySegmentsRace ==
    \E t \in Threads :
        \/ MySegmentsPut(t) /\ th'[t].arg[1] = "subject_1"
        \/ MySegmentsPut_delete(t)
        \/ MySegmentsPut_merge(t)
        \/ MySegmentsContains(t) /\ th'[t].arg[2] = "subject_1"
        \/ MySegmentsContains_read(t)
        \/ DbSessionEnter(t)
        \/ DbSessionExit(t)

SpecMySegmentsRace == Init /\ [][NextMySegmentsRace]_vars

StoredNames(key) == {r.segment_name : r \in ByTrafficKey(mySegments, key)}

\* A segment_contains that reads while another thread's put for the same
\* subject is between its delete and its merge finds a name that is in the set
\* the put removed and in the set it stores.
ReaderSeesOldOrNew ==
    \A t \in Threads : \A u \in Threads \ {t} :
       (/\ th[t].op = "my_segments_contains" /\ th[t].at = "end" /\ th[t].ph = "exit"
        /\ th[u].at = "myseg_put_merge" /\ th[u].ph = "ready"
        /\ th[u].arg[1] = th[t].arg[2]
        /\ th[t].arg[1] \in Range(th[u].arg[2])
        /\ th[t].arg[1] \in {r.segment_name : r \in Range(th[u].rows)})
       => th[t].ret = "True"

\* When the threads have each finished a put for the same subject, the names
\* stored for the subject are the argument of one of them.
TwoPutsLeaveOneArgument ==
    \A t \in Threads : \A u \in Threads \ {t} :
       (/\ th[t].op = "my_segments_put" /\ th[t].ph = "idle"
        /\ th[u].op = "my_segments_put" /\ th[u].ph = "idle"
        /\ th[t].arg[1] = th[u].arg[1])
       => StoredNames(th[t].arg[1]) \in {Range(th[t].arg[2]), Range(th[u].arg[2])}

\* C37: put(subject_key, segment_names) is atomic for concurrent readers and
\* writers. A segment_contains that runs while another thread's put for the
\* same subject is between its delete and its merge answers True for a name
\* that is both in the set the put removed and in the set it stores, and when
\* the threads have each finished a put for the same subject, the names stored
\* for the subject are the argument of one of them.
C37_PutIsAtomic == ReaderSeesOldOrNew /\ TwoPutsLeaveOneArgument

\* The key a thread adds in the update race: the first thread key_1, the others
\* key_2.
AddedBy(t) == IF t = 1 THEN "key_1" ELSE "key_2"

\* One thread stores segment_1 without members; then the threads call
\* update(segment_1, {their key}, set()) on the stored segment.
NextSegmentUpdateRace ==
    \E t \in Threads :
        \/ SegmentPut(t) /\ t = 1 /\ segments = {} /\ th'[t].arg[1].keys = {}
        \/ SegmentPut_get(t)
        \/ SegmentPut_merge(t)
        \/ /\ SegmentUpdate(t)
           /\ segments # {}
           /\ \A u \in Threads : th[u].op # "segment_put" \/ th[u].ph = "idle"
           /\ th'[t].arg[2] = {AddedBy(t)} /\ th'[t].arg[3] = {}
           /\ th'[t].arg[4] = NoNumber
        \/ SegmentUpdate_get(t)
        \/ SegmentUpdate_merge(t)
        \/ DbSessionEnter(t)
        \/ DbSessionExit(t)

SpecSegmentUpdateRace == Init /\ [][NextSegmentUpdateRace]_vars

\* The member names of the stored segments called name.
Members(name) == UNION {SegmentOf(row).keys : row \in ByName(segments, name)}

\* C38: when two threads have each finished an update of the same existing
\* segment, each adding its own key and removing nothing, both keys are
\* members of the segment, whatever the interleaving of the two calls.
C38_NoUpdateLost ==
    \A t \in Threads : \A u \in Threads \ {t} :
       (/\ th[t].op = "segment_update" /\ th[t].ph = "idle"
        /\ th[u].op = "segment_update" /\ th[u].ph = "idle"
        /\ th[t].arg[1] = th[u].arg[1])
       => th[t].arg[2] \cup th[u].arg[2] \subseteq Members(th[t].arg[1])

====
